---- MODULE Spec2Model ----
(***************************************************************************)
(* Routing and confidence arbitration of the math routing agent            *)
(* (backend/app/agents/routing_agent.py) with the collaborators it calls:  *)
(* the knowledge-base search, the web search and the math solver.          *)
(*                                                                         *)
(* Scores and confidences are Python floats in the source.  Here they are  *)
(* integers counting thousandths (0.7 is 700), and sums are exact; the       *)
(* binary rounding of float sums is not modelled.                          *)
(*                                                                         *)
(* Texts are sequences of string parts: an f-string is the sequence of its *)
(* literal and interpolated parts, concatenation is \o.                    *)
(***************************************************************************)
EXTENDS Integers, Sequences, FiniteSets, TLC

(***************************************************************************)
(* Bounds of the model.                                                    *)
(***************************************************************************)
\* most vocabulary words in one query
MaxWords == 2
\* a query carries either no or MaxFiller further words outside the vocabulary
MaxFiller == 10
\* queries routed before the model stops taking new ones
MaxHistory == 1
\* feedback submissions one process receives, and entries the store holds
MaxFeedback == 2
\* queries routed in the specification of the routing history
MaxLedger == 2

(***************************************************************************)
(* Program constants.                                                      *)
(***************************************************************************)
confidence_threshold == 700
WebSearchGate == 500
ModerateKbConfidence == 300
top_k == 3
MinVectorScore == 300
ExcerptLen == 100

Min(a, b) == IF a <= b THEN a ELSE b

Range(s) == {s[i] : i \in DOMAIN s}

(***************************************************************************)
(* Queries.  A query is a set of distinct vocabulary words followed by     *)
(* `filler` further words; a filler word contains no keyword of any list   *)
(* and occurs in no document.  Words is the part of the source's keyword   *)
(* lists and document texts the model draws queries from.                  *)
(***************************************************************************)
Words == {"quadratic", "roots", "find", "explain", "newton"}

FillerWordLen == 11

Queries ==
    {[words |-> W, filler |-> f] :
        W \in {X \in SUBSET Words : Cardinality(X) <= MaxWords},
        f \in {0, MaxFiller}} \ {[words |-> {}, filler |-> 0]}

\* `s in w` for a keyword s and a query word w (Python substring test)
SubstringOf(s, w) == s = w \/ (s = "new" /\ w = "newton")

\* `s in query_lower`
Contains(q, s) == \E w \in q.words : SubstringOf(s, w)

\* len(query.split())
WordCount(q) == Cardinality(q.words) + q.filler

RECURSIVE SumLen(_)
SumLen(W) ==
    IF W = {} THEN 0
    ELSE LET w == CHOOSE x \in W : TRUE
         IN  (CASE w = "quadratic" -> 9
                [] w = "roots" -> 5
                [] w = "find" -> 4
                [] w = "explain" -> 7
                [] w = "newton" -> 6
                [] OTHER -> 0) + SumLen(W \ {w})

\* len(query): the words, the filler words and one blank between neighbours
TextLen(q) == SumLen(q.words) + q.filler * FillerWordLen + (WordCount(q) - 1)

\* query[:100], kept as the query and the number of characters taken from it
Excerpt(q) == [text |-> q, len |-> Min(TextLen(q), ExcerptLen)]

(***************************************************************************)
(* Knowledge base: four of the documents of _create_new_knowledge_base.    *)
(* `text` holds the vocabulary words that occur in the lowercased          *)
(* question and answer of the document.                                    *)
(***************************************************************************)
Documents ==
    << [id |-> "quad_formula",
        question |-> "What is the quadratic formula?",
        answer |-> "The quadratic formula is x = (-b +- sqrt(b^2-4ac)) / (2a)",
        explanation |-> "This formula solves quadratic equations of the form ax^2 + bx + c = 0",
        keywords |-> {"quadratic", "formula", "equation", "roots"},
        text |-> {"quadratic"}, topic |-> "algebra"],
       [id |-> "integration_basic",
        question |-> "What is integration?",
        answer |-> "Integration is the reverse process of differentiation, used to find areas under curves",
        explanation |-> "The integral represents the antiderivative of f(x) plus a constant",
        keywords |-> {"integration", "integral", "antiderivative", "calculus"},
        text |-> {"find"}, topic |-> "calculus"],
       [id |-> "linear_equation",
        question |-> "How to solve linear equations?",
        answer |-> "For ax + b = c, solve by isolating x: x = (c - b) / a",
        explanation |-> "Linear equations have the form ax + b = c and can be solved by algebraic manipulation",
        keywords |-> {"linear", "equation", "algebra", "solve"},
        text |-> {}, topic |-> "algebra"],
       [id |-> "solve_quadratic",
        question |-> "How to solve x^2 - 5x + 6 = 0?",
        answer |-> "x = 2 or x = 3",
        explanation |-> "Factor as (x-2)(x-3) = 0 or use quadratic formula",
        keywords |-> {"quadratic", "solve", "factoring", "equation"},
        text |-> {}, topic |-> "algebra"] >>

\* score of one document in _keyword_search
KeywordScore(doc, q) ==
    500 * Cardinality({k \in doc.keywords : Contains(q, k)})
  + 200 * Cardinality({w \in q.words : w \in doc.text})

\* results.sort(key=score, reverse=True): stable, highest score first
RECURSIVE SortByScore(_)
SortByScore(s) ==
    IF s = << >> THEN << >>
    ELSE LET best == CHOOSE i \in DOMAIN s :
                        /\ \A j \in DOMAIN s : s[j].score <= s[i].score
                        /\ \A j \in DOMAIN s : j < i => s[j].score < s[i].score
             rest == [k \in 1..(Len(s) - 1) |-> IF k < best THEN s[k] ELSE s[k + 1]]
         IN  <<s[best]>> \o SortByScore(rest)

Take(s, n) == SubSeq(s, 1, Min(n, Len(s)))

\* doc.copy() with the score added
Hit(doc, score) ==
    [f \in (DOMAIN doc) \cup {"score"} |-> IF f = "score" THEN score ELSE doc[f]]

RECURSIVE ScoredDocs(_, _)
ScoredDocs(q, i) ==
    IF i > Len(Documents) THEN << >>
    ELSE LET sc == KeywordScore(Documents[i], q)
         IN  (IF sc > 0 THEN <<Hit(Documents[i], sc)>> ELSE << >>)
             \o ScoredDocs(q, i + 1)

keyword_search(q, k) == Take(SortByScore(ScoredDocs(q, 1)), k)

(***************************************************************************)
(* Vector search.  The similarities come from the embedding model, which   *)
(* is outside the repository: `sims` is what the index returns for the     *)
(* query, highest first, one value for each of the min(top_k, documents)   *)
(* hits; hit i is document i.  SimLists are the answers the model tries.   *)
(***************************************************************************)
SimLists == {<<100, 100, 100>>, <<600, 350, 100>>}

\* doc.copy() with the score and the rank added
VectorHit(doc, score, rank) ==
    [f \in (DOMAIN doc) \cup {"score", "rank"} |->
        IF f = "score" THEN score ELSE IF f = "rank" THEN rank ELSE doc[f]]

vector_search(sims) ==
    SelectSeq([i \in DOMAIN sims |-> VectorHit(Documents[i], sims[i], i)],
              LAMBDA r : r.score > MinVectorScore)

\* KnowledgeBaseService.search when it does not raise
search(indexReady, q, sims, k) ==
    IF indexReady THEN vector_search(sims) ELSE keyword_search(q, k)

(***************************************************************************)
(* Confidence scorers of the routing agent.                                *)
(***************************************************************************)
math_topics == {"derivative", "integral", "quadratic", "linear", "equation", "formula"}

computational_words == {"solve", "calculate", "find", "compute"}

web_search_indicators ==
    {"latest", "recent", "new", "current", "today", "2024", "2025",
     "research", "paper", "study", "theorem", "conjecture",
     "explain", "what is", "definition", "concept"}

advanced_topics ==
    {"riemann", "fermat", "basel", "euler", "gauss", "newton",
     "hypothesis", "conjecture", "problem", "paradox"}

explanation_words == {"explain", "what is", "how does", "why"}

\* max([result.get('score', 0.0) for result in results]), results not empty
BestScore(results) ==
    CHOOSE m \in {results[i].score : i \in DOMAIN results} :
        \A i \in DOMAIN results : results[i].score <= m

TopicBoost(q) ==
    100 * Cardinality({t \in math_topics : Contains(q, t)})
  + (IF \E w \in computational_words : Contains(q, w) THEN 100 ELSE 0)

\* variant: the sum is returned without the clamp to 1.0
calculate_kb_confidence_Unclamped(results, q) ==
    IF results = << >> THEN 0
    ELSE BestScore(results) + TopicBoost(q)

calculate_kb_confidence(results, q) ==
    IF results = << >> THEN 0
    ELSE Min(BestScore(results) + TopicBoost(q), 1000)

WebSearchRawScore(q) ==
    200 * Cardinality({i \in web_search_indicators : Contains(q, i)})
  + 300 * Cardinality({t \in advanced_topics : Contains(q, t)})
  + (IF WordCount(q) > 10 THEN 200 ELSE 0)
  + (IF \E w \in explanation_words : Contains(q, w) THEN 300 ELSE 100)

should_use_web_search(q) == Min(WebSearchRawScore(q), 1000)

(***************************************************************************)
(* route_query.  `outcome` is what the knowledge-base search did: it       *)
(* returned `hits`, or it raised; `fault` names the step of the try block  *)
(* that raised, "none" when none did.                                      *)
(***************************************************************************)
KNOWLEDGE_BASE == "knowledge_base"

WEB_SEARCH == "web_search"

HYBRID == "hybrid"

FALLBACK == "fallback"

RouteDecision == {KNOWLEDGE_BASE, WEB_SEARCH, HYBRID, FALLBACK}

RouteFaults == {"none", "search", "kb_scorer", "web_scorer"}

ErrorText(fault) ==
    CASE fault = "search" -> "'keywords'"
      [] fault = "kb_scorer" -> "kb confidence failed"
      [] fault = "web_scorer" -> "web score failed"
      [] OTHER -> ""

\* f"{x:.3f}" of a value held in thousandths
Fmt3(x) ==
    ToString(x \div 1000) \o "." \o ToString((x % 1000) \div 100)
        \o ToString((x % 100) \div 10) \o ToString(x % 10)

NoScores == [r \in {} |-> 0]

KbOnly(kb) == [r \in {KNOWLEDGE_BASE} |-> kb]

KbAndWeb(kb, web) == [r \in {KNOWLEDGE_BASE, WEB_SEARCH} |-> IF r = KNOWLEDGE_BASE THEN kb ELSE web]

\* variant: the threshold test is strict
DecideRoute_StrictThreshold(kb, web) ==
    IF kb > confidence_threshold THEN KNOWLEDGE_BASE
    ELSE IF web >= WebSearchGate
         THEN (IF kb > ModerateKbConfidence THEN HYBRID ELSE WEB_SEARCH)
         ELSE FALLBACK

\* variant: a low web-search need goes to the web search, not to the solver
DecideRoute_NoFallback(kb, web) ==
    IF kb >= confidence_threshold THEN KNOWLEDGE_BASE
    ELSE IF kb > ModerateKbConfidence /\ web >= WebSearchGate THEN HYBRID
    ELSE WEB_SEARCH

\* variant: the moderate-confidence test includes its boundary
DecideRoute_ModerateInclusive(kb, web) ==
    IF kb >= confidence_threshold THEN KNOWLEDGE_BASE
    ELSE IF web >= WebSearchGate
         THEN (IF kb >= ModerateKbConfidence THEN HYBRID ELSE WEB_SEARCH)
         ELSE FALLBACK

\* the route chosen from the two scores (lines 49-67)
DecideRoute(kb, web) ==
    IF kb >= confidence_threshold THEN KNOWLEDGE_BASE
    ELSE IF web >= WebSearchGate
         THEN (IF kb > ModerateKbConfidence THEN HYBRID ELSE WEB_SEARCH)
         ELSE FALLBACK

RouteReasoning(route, kb) ==
    CASE route = KNOWLEDGE_BASE ->
            <<"High confidence match in knowledge base (score: ", Fmt3(kb), ")">>
      [] route = HYBRID ->
            <<"Using hybrid approach - combining KB and web search">>
      [] route = WEB_SEARCH ->
            <<"Using web search due to low KB confidence (", Fmt3(kb), ")">>
      [] OTHER ->
            <<"Using fallback to math solver">>

\* variant: the entry holds the text of the enum member, not its value
HistoryEntry_MemberText(q, route, scores, reasoning) ==
    [query |-> Excerpt(q), route |-> "RouteDecision." \o route, confidence |-> scores,
     reasoning |-> reasoning]

HistoryEntry(q, route, scores, reasoning) ==
    [query |-> Excerpt(q), route |-> route, confidence |-> scores, reasoning |-> reasoning]

\* variant: the reasoning does not carry the error
RouteError_NoErrorText(q, scores, fault) ==
    [route |-> FALLBACK,
     metadata |-> [query |-> q, confidence_scores |-> scores,
                   reasoning |-> <<"Error occurred, using fallback">>,
                   fallback_used |-> TRUE, route_used |-> FALLBACK],
     appended |-> << >>]

\* variant: the except branch leaves fallback_used as it was created
RouteError_NotFlagged(q, scores, fault) ==
    [route |-> FALLBACK,
     metadata |-> [query |-> q, confidence_scores |-> scores,
                   reasoning |-> <<"Error occurred, using fallback: ", ErrorText(fault)>>,
                   fallback_used |-> FALSE, route_used |-> FALLBACK],
     appended |-> << >>]

\* the except branch of route_query (lines 82-87)
RouteError(q, scores, fault) ==
    [route |-> FALLBACK,
     metadata |-> [query |-> q, confidence_scores |-> scores,
                   reasoning |-> <<"Error occurred, using fallback: ", ErrorText(fault)>>,
                   fallback_used |-> TRUE, route_used |-> FALLBACK],
     appended |-> << >>]

route_query(q, hits, fault) ==
    IF fault \in {"search", "kb_scorer"} THEN RouteError(q, NoScores, fault)
    ELSE LET kb == calculate_kb_confidence(hits, q)
         IN  IF kb < confidence_threshold /\ fault = "web_scorer"
             THEN RouteError(q, KbOnly(kb), fault)
             ELSE LET web == should_use_web_search(q)
                      route == DecideRoute(kb, web)
                      scores == IF kb >= confidence_threshold THEN KbOnly(kb)
                                ELSE KbAndWeb(kb, web)
                      reasoning == RouteReasoning(route, kb)
                  IN  [route |-> route,
                       metadata |-> [query |-> q, confidence_scores |-> scores,
                                     reasoning |-> reasoning,
                                     fallback_used |-> (route = FALLBACK),
                                     route_used |-> route],
                       appended |-> <<HistoryEntry(q, route, scores, reasoning)>>]

(***************************************************************************)
(* Math solver (math_solver.py).  Each solve_* method wraps its body in    *)
(* try/except and answers a failure of its own with                        *)
(* _generate_error_response: outcome "degraded".  Outcome "raise" is an    *)
(* exception that leaves the method.                                       *)
(***************************************************************************)
SolverOutcomes == {"ok", "degraded", "raise"}

SolverError == "solver failure"

generate_error_response(e) ==
    [solution |-> <<"I encountered an error while solving this problem. Please try rephrasing your question or check if all necessary information is provided.">>,
     steps |-> <<"Error occurred during processing", "Please verify your input and try again">>,
     confidence |-> 0,
     error |-> e]

generate_steps_from_kb(kb_result, q) ==
    <<"Problem Type: This is a " \o kb_result.topic \o " problem.">> \o
    (IF kb_result.id = "quad_formula"
     THEN <<"Step 1: Identify the quadratic equation in the form ax^2 + bx + c = 0",
            "Step 2: Apply the quadratic formula: x = (-b +- sqrt(b^2-4ac)) / (2a)",
            "Step 3: Substitute the values of a, b, and c",
            "Step 4: Simplify to find the solutions">>
     ELSE IF Contains(q, "solve")
     THEN <<"Step 1: Write the equation in standard form",
            "Step 2: Apply appropriate solving technique",
            "Step 3: Verify the solution">>
     ELSE <<"Step 1: Understand the problem requirements",
            "Step 2: Apply relevant mathematical principles",
            "Step 3: Calculate the result">>)

format_solution(answer, explanation, steps) ==
    (IF answer # "" THEN <<"Answer: ", answer>> ELSE << >>)
    \o (IF explanation # "" THEN <<"\nExplanation: ", explanation>> ELSE << >>)
    \o (IF steps # << >> THEN <<"\nDetailed Steps:\n">> \o steps ELSE << >>)

solve_from_knowledge(kb_result, q, outcome) ==
    IF outcome = "degraded" THEN generate_error_response(SolverError)
    ELSE LET steps == generate_steps_from_kb(kb_result, q)
         IN  [solution |-> format_solution(kb_result.answer, kb_result.explanation, steps),
              steps |-> steps,
              topic |-> kb_result.topic,
              confidence |-> kb_result.score,
              method |-> "knowledge_base"]

generate_steps_from_web(info, q) ==
    IF Contains(q, "solve")
    THEN <<"Step 1: Identify the type of equation or problem",
           "Step 2: Choose the appropriate solution method",
           "Step 3: Apply the method systematically",
           "Step 4: Check and verify the solution">>
    ELSE <<"Step 1: Understand the mathematical concept",
           "Step 2: Apply relevant formulas or theorems",
           "Step 3: Simplify and present the result">>

RECURSIVE CombinedContent(_)
CombinedContent(results) ==
    IF results = << >> THEN << >>
    ELSE (IF Head(results).has_content /\ Head(results).content # ""
          THEN <<Head(results).content>> ELSE << >>)
         \o CombinedContent(Tail(results))

extract_best_info(search_results) ==
    [title |-> search_results[1].title,
     content |-> CombinedContent(Take(search_results, 3)),
     confidence |-> search_results[1].relevance_score,
     source_count |-> Len(search_results)]

create_web_based_solution(info) ==
    IF info.content # << >>
    THEN <<"Based on search results about '", info.title, "':\n\n">> \o info.content \o <<"...">>
    ELSE <<"Found information about '", info.title,
           "', but specific solution steps need to be worked out based on the mathematical principles involved.">>

\* called with a non-empty result list only
solve_from_web_search(search_results, q, outcome) ==
    IF outcome = "degraded" THEN generate_error_response(SolverError)
    ELSE LET info == extract_best_info(search_results)
         IN  [solution |-> create_web_based_solution(info),
              steps |-> generate_steps_from_web(info, q),
              sources |-> Take(search_results, 2),
              confidence |-> info.confidence,
              method |-> "web_search"]

identify_problem_type(q) ==
    IF Contains(q, "quadratic") THEN "quadratic" ELSE "general"

generate_generic_quadratic_solution ==
    [solution |-> <<"For quadratic equations ax^2 + bx + c = 0, use the quadratic formula: x = (-b +- sqrt(b^2-4ac)) / (2a)">>,
     steps |-> <<"Step 1: Identify coefficients a, b, and c",
                 "Step 2: Calculate discriminant b^2 - 4ac",
                 "Step 3: Apply quadratic formula",
                 "Step 4: Simplify to get solutions">>,
     confidence |-> 700]

generate_contextual_help(q) ==
    IF Contains(q, "quadratic")
    THEN <<"For quadratic equations, you can use the quadratic formula: x = (-b +- sqrt(b^2-4ac)) / (2a), or try factoring if possible.">>
    ELSE IF Contains(q, "solve") \/ Contains(q, "equation")
    THEN <<"To solve equations: isolate the variable by performing the same operations on both sides, or use specific methods for different equation types.">>
    ELSE <<"Please provide more specific details about your mathematical problem so I can give you a detailed step-by-step solution.">>

solve_general_problem(q) ==
    [solution |-> generate_contextual_help(q),
     steps |-> <<"Step 1: Analyzing the mathematical problem",
                 "Step 2: Identifying relevant mathematical concepts",
                 "Step 3: Applying appropriate solution methods">>,
     confidence |-> 500]

WithMethod(r, m) ==
    [f \in (DOMAIN r) \cup {"method"} |-> IF f = "method" THEN m ELSE r[f]]

solve_direct(q, outcome) ==
    IF outcome = "degraded" THEN generate_error_response(SolverError)
    ELSE WithMethod(IF identify_problem_type(q) = "quadratic"
                    THEN generate_generic_quadratic_solution
                    ELSE solve_general_problem(q),
                    "direct_computation")

(***************************************************************************)
(* Web search service (web_search.py).  The pages a live search returns    *)
(* are outside the repository: a page is given by the features             *)
(* _filter_math_results reads from it.  `matching` is the share of the     *)
(* query words found in title and snippet, in percent.                     *)
(***************************************************************************)
max_results == 5

ReputablePage ==
    [title |-> "Quadratic Equation -- Wolfram MathWorld", math_domain |-> TRUE,
     math_title |-> TRUE, math_snippet |-> TRUE, matching |-> 100,
     irrelevant |-> FALSE, page_text |-> "The solutions are given by the quadratic formula."]

PartialPage ==
    [title |-> "Numbers", math_domain |-> FALSE,
     math_title |-> FALSE, math_snippet |-> FALSE, matching |-> 50,
     irrelevant |-> FALSE, page_text |-> ""]

ShoppingPage ==
    [title |-> "Buy calculators", math_domain |-> FALSE,
     math_title |-> FALSE, math_snippet |-> FALSE, matching |-> 100,
     irrelevant |-> TRUE, page_text |-> ""]

\* the page lists the model tries
PageLists ==
    {<< >>, <<ShoppingPage>>, <<PartialPage>>, <<PartialPage, ReputablePage>>,
     <<ReputablePage, ShoppingPage>>}

WebOutcomes ==
    {[kind |-> "live", pages |-> ps] : ps \in PageLists}
    \cup {[kind |-> k, pages |-> << >>] : k \in {"http_error", "exception", "raise"}}

WebError == "web failure"

\* score of one page in _filter_math_results
RelevanceScore(page) ==
    (IF page.math_domain THEN 2000 ELSE 0)
  + (IF page.math_title THEN 1000 ELSE 0)
  + (IF page.math_snippet THEN 500 ELSE 0)
  + (page.matching * 1500) \div 100
  - (IF page.irrelevant THEN 1000 ELSE 0)

WebResult(page, sc) ==
    [title |-> page.title, relevance_score |-> sc,
     has_content |-> FALSE, content |-> "", page_text |-> page.page_text]

RECURSIVE ScoredPages(_)
ScoredPages(pages) ==
    IF pages = << >> THEN << >>
    ELSE LET sc == RelevanceScore(Head(pages))
         IN  (IF sc > 500 THEN <<WebResult(Head(pages), sc)>> ELSE << >>)
             \o ScoredPages(Tail(pages))

RECURSIVE SortByRelevance(_)
SortByRelevance(s) ==
    IF s = << >> THEN << >>
    ELSE LET best == CHOOSE i \in DOMAIN s :
                        /\ \A j \in DOMAIN s : s[j].relevance_score <= s[i].relevance_score
                        /\ \A j \in DOMAIN s : j < i => s[j].relevance_score < s[i].relevance_score
             rest == [k \in 1..(Len(s) - 1) |-> IF k < best THEN s[k] ELSE s[k + 1]]
         IN  <<s[best]>> \o SortByRelevance(rest)

filter_math_results(pages) == SortByRelevance(ScoredPages(pages))

\* _enrich_results: the fetched page text, when there is any, becomes the content
enrich_results(results) ==
    [i \in DOMAIN results |->
        [title |-> results[i].title,
         relevance_score |-> results[i].relevance_score,
         has_content |-> results[i].page_text # "",
         content |-> results[i].page_text]]

fallback_search(q) ==
    IF Contains(q, "quadratic")
    THEN <<[title |-> "Quadratic Formula", relevance_score |-> 800, has_content |-> TRUE,
            content |-> "Use the quadratic formula when factoring is difficult or impossible."]>>
    ELSE IF Contains(q, "derivative")
    THEN <<[title |-> "Basic Derivative Rules", relevance_score |-> 800, has_content |-> TRUE,
            content |-> "Derivatives measure the rate of change of functions."]>>
    ELSE IF Contains(q, "solve") \/ Contains(q, "equation")
    THEN <<[title |-> "Solving Equations", relevance_score |-> 600, has_content |-> TRUE,
            content |-> "Isolate the variable by performing the same operations on both sides."]>>
    ELSE << >>

\* WebSearchService.search when it does not raise
web_search(q, outcome) ==
    CASE outcome.kind = "live" ->
            enrich_results(Take(filter_math_results(outcome.pages), max_results))
      [] outcome.kind = "exception" -> fallback_search(q)
      [] OTHER -> << >>

(***************************************************************************)
(* The per-route operations of the routing agent and _combine_results.     *)
(* A result is a record; the key "error" is present only where the source  *)
(* sets it.                                                                *)
(***************************************************************************)
KbSearchError == "'keywords'"

ErrorResult(solution, steps, e) ==
    [solution |-> solution, steps |-> steps, sources |-> << >>, confidence |-> 0,
     error |-> e]

\* variant: a failed solve keeps the score of the best hit as confidence
process_knowledge_base_KeepsScore(q, searchRaises, hits, solve) ==
    IF searchRaises
    THEN ErrorResult(<<"Error accessing knowledge base: ", KbSearchError>>, << >>, KbSearchError)
    ELSE IF hits # << >>
    THEN [solution |-> IF solve = "raise"
                       THEN <<"Error accessing knowledge base: ", SolverError>>
                       ELSE solve_from_knowledge(hits[1], q, solve).solution,
          steps |-> IF solve = "raise" THEN << >>
                    ELSE solve_from_knowledge(hits[1], q, solve).steps,
          sources |-> <<[type |-> "knowledge_base", content |-> hits[1]]>>,
          confidence |-> hits[1].score]
    ELSE [solution |-> <<"No relevant information found in knowledge base.">>,
          steps |-> << >>, sources |-> << >>, confidence |-> 0]

\* _process_knowledge_base: searchRaises says whether the search raised,
\* hits is what it returned otherwise
process_knowledge_base(q, searchRaises, hits, solve) ==
    IF searchRaises
    THEN ErrorResult(<<"Error accessing knowledge base: ", KbSearchError>>, << >>, KbSearchError)
    ELSE IF hits # << >>
    THEN IF solve = "raise"
         THEN ErrorResult(<<"Error accessing knowledge base: ", SolverError>>, << >>, SolverError)
         ELSE LET best_result == hits[1]
                  solution == solve_from_knowledge(best_result, q, solve)
              IN  [solution |-> solution.solution,
                   steps |-> solution.steps,
                   sources |-> <<[type |-> "knowledge_base", content |-> best_result]>>,
                   confidence |-> best_result.score]
    ELSE [solution |-> <<"No relevant information found in knowledge base.">>,
          steps |-> << >>, sources |-> << >>, confidence |-> 0]

process_web_search(q, outcome, solve) ==
    IF outcome.kind = "raise"
    THEN ErrorResult(<<"Error during web search: ", WebError>>, << >>, WebError)
    ELSE LET results == web_search(q, outcome)
         IN  IF results # << >>
             THEN IF solve = "raise"
                  THEN ErrorResult(<<"Error during web search: ", SolverError>>, << >>, SolverError)
                  ELSE LET solution == solve_from_web_search(results, q, solve)
                       IN  [solution |-> solution.solution,
                            steps |-> solution.steps,
                            sources |-> <<[type |-> "web_search", results |-> Take(results, 3)]>>,
                            confidence |-> solution.confidence]
             ELSE [solution |-> <<"No relevant information found through web search.">>,
                   steps |-> << >>, sources |-> << >>, confidence |-> 0]

process_fallback(q, solve) ==
    IF solve = "raise"
    THEN ErrorResult(<<"I'm having trouble solving this problem. Could you please rephrase your question or provide more context?">>,
                     <<"Unable to process the query with available methods">>, SolverError)
    ELSE LET solution == solve_direct(q, solve)
         IN  [solution |-> solution.solution,
              steps |-> solution.steps,
              sources |-> <<[type |-> "direct_solver", method |-> "mathematical_analysis"]>>,
              confidence |-> solution.confidence]

\* a Python string is true when it is not empty
IsEmptyText(t) == \A i \in DOMAIN t : t[i] = ""

\* variant: the confidence of the knowledge-base result is kept
combine_results_KbConfidence(kb_res, web_res) ==
    [solution |->
        <<"Based on my knowledge base: ">> \o kb_res.solution \o <<"\n\n">>
        \o (IF ~IsEmptyText(web_res.solution) /\ web_res.solution # kb_res.solution
            THEN <<"Additional information from web search: ">> \o web_res.solution
            ELSE << >>),
     steps |-> kb_res.steps \o web_res.steps,
     sources |-> kb_res.sources \o web_res.sources,
     confidence |-> kb_res.confidence]

\* variant: the web-search steps and sources come first
combine_results_WebFirst(kb_res, web_res) ==
    [solution |->
        <<"Based on my knowledge base: ">> \o kb_res.solution \o <<"\n\n">>
        \o (IF ~IsEmptyText(web_res.solution) /\ web_res.solution # kb_res.solution
            THEN <<"Additional information from web search: ">> \o web_res.solution
            ELSE << >>),
     steps |-> web_res.steps \o kb_res.steps,
     sources |-> web_res.sources \o kb_res.sources,
     confidence |-> (kb_res.confidence + web_res.confidence) \div 2]

\* _combine_results
combine_results(kb_res, web_res) ==
    [solution |->
        <<"Based on my knowledge base: ">> \o kb_res.solution \o <<"\n\n">>
        \o (IF ~IsEmptyText(web_res.solution) /\ web_res.solution # kb_res.solution
            THEN <<"Additional information from web search: ">> \o web_res.solution
            ELSE << >>),
     steps |-> kb_res.steps \o web_res.steps,
     sources |-> kb_res.sources \o web_res.sources,
     confidence |-> (kb_res.confidence + web_res.confidence) \div 2]

(***************************************************************************)
(* State.  process_query is a coroutine: `pc` is the place it has reached, *)
(* the other request variables are its locals.  It is cut where it awaits  *)
(* a per-route operation.                                                  *)
(***************************************************************************)
VARIABLES
    index_ready,       \* KnowledgeBaseService has a model and an index
    routing_history,   \* RoutingAgent.routing_history
    pc,                \* "idle", "kb", "web", "fallback" or "done"
    query,             \* the query being processed
    sims,              \* what the vector index answers for that query
    route_decision,    \* route returned by route_query
    routing_metadata,  \* metadata returned by route_query
    response,          \* the envelope process_query builds and returns
    kb_result,         \* result of _process_knowledge_base
    web_result,        \* result of _process_web_search
    fallback_result,   \* result of _process_fallback
    route_fault,       \* the step of route_query's try block that raised, or "none"
    calls              \* the calls made for this query, in order

routing_vars ==
    <<index_ready, routing_history, pc, query, sims, route_decision,
      routing_metadata, response, kb_result, web_result, fallback_result,
      route_fault, calls>>

(***************************************************************************)
(* State of the feedback agent (feedback_agent.py) and of the feedback and *)
(* report endpoints of api/routes.py.                                      *)
(***************************************************************************)
VARIABLES
    feedback_storage,         \* FeedbackAgent.feedback_storage: the entries in insertion order
    feedback_stats,           \* FeedbackAgent.feedback_stats: the counters that exist
    improvement_suggestions,  \* FeedbackAgent.improvement_suggestions
    disk,                     \* the file at settings.feedback_data_path
    clock,                    \* datetime.now(), in seconds
    inflight,                 \* POST /feedback requests received and not yet handled
    received,                 \* number of POST /feedback requests received by this process
    handled,                  \* the collect_feedback calls of this process, in order
    process_start,            \* what the process loaded when it started
    reply                     \* what the last feedback or report operation returned

feedback_vars ==
    <<feedback_storage, feedback_stats, improvement_suggestions, disk, clock,
      inflight, received, handled, process_start, reply>>

vars == <<routing_vars, feedback_vars>>

\* Python's None in the error field
None == "<None>"

NoQuery == [words |-> {}, filler |-> 0]

NoSims == << >>

NoRoute == "<none>"

Absent == [absent |-> TRUE]

\* a call of `op` made by `by`; raised says whether it ended in an exception
Call(op, by, raised) == [op |-> op, by |-> by, raised |-> raised]

\* variant: the result replaces the envelope
Update_Replace(resp, result) == result

\* response.update(result)
Update(resp, result) ==
    [f \in (DOMAIN resp) \cup (DOMAIN result) |->
        IF f \in DOMAIN result THEN result[f] ELSE resp[f]]

\* the envelope of lines 170-179
NewResponse(q, route, metadata) ==
    [query |-> q, route_used |-> route, routing_metadata |-> metadata,
     solution |-> << >>, steps |-> << >>, sources |-> << >>,
     confidence |-> 0, error |-> None]

(***************************************************************************)
(* Feedback agent (feedback_agent.py).  feedback_storage is a dict: the    *)
(* model keeps its values in insertion order, each with its key in `id`.   *)
(* feedback_stats is a defaultdict(int): a function whose domain is the    *)
(* set of counters that exist; reading a counter that does not exist       *)
(* creates it with the value 0.                                            *)
(***************************************************************************)
\* FeedbackData as submitted (schemas.py, FeedbackData)
LowRated ==
    [rating |-> 1, helpful |-> FALSE, correct |-> FALSE, clear |-> TRUE, complete |-> TRUE]

Satisfied ==
    [rating |-> 5, helpful |-> TRUE, correct |-> TRUE, clear |-> TRUE, complete |-> TRUE]

Unclear ==
    [rating |-> 3, helpful |-> TRUE, correct |-> TRUE, clear |-> FALSE, complete |-> FALSE]

\* feedback_data as a caller of collect_feedback can pass it past the schema:
\* the rating is a text.  A rating that is not a number is held in the field
\* rating_text, so that it is never compared with a number.
TextRated ==
    [rating_text |-> "five", helpful |-> TRUE, correct |-> TRUE, clear |-> FALSE,
     complete |-> TRUE]

\* isinstance(feedback['rating'], (int, float)): the comparisons of the
\* rating with 4, 2 and 3 raise TypeError otherwise
HasNumberRating(f) == "rating" \in DOMAIN f

\* routing_metadata of a submitted response is optional in QueryResponse
NoMetadata == [is_none |-> TRUE]

Metadata(scores) == [is_none |-> FALSE, confidence_scores |-> scores]

\* request.response.dict(): the fields collect_feedback reads and that the
\* operations of the agent use afterwards
KbResponse ==
    [route_used |-> KNOWLEDGE_BASE, confidence |-> 900,
     routing_metadata |-> Metadata(KbOnly(900))]

FallbackResponse ==
    [route_used |-> FALLBACK, confidence |-> 300,
     routing_metadata |-> Metadata(KbAndWeb(300, 100))]

BareResponse ==
    [route_used |-> KNOWLEDGE_BASE, confidence |-> 900, routing_metadata |-> NoMetadata]

\* the submissions the model tries
FeedbackRequests ==
    {[query |-> "Solve x^2 - 5x + 6 = 0", response |-> KbResponse, feedback |-> LowRated],
     [query |-> "Solve x^2 - 5x + 6 = 0", response |-> FallbackResponse, feedback |-> LowRated],
     [query |-> "What is integration?", response |-> FallbackResponse, feedback |-> Unclear],
     [query |-> "What is integration?", response |-> BareResponse, feedback |-> Satisfied]}

\* the seconds the clock shows while the model runs
Seconds == {0, 1}

NoStats == [k \in {} |-> 0]

\* the value a read of counter k gives
Stat(stats, k) == IF k \in DOMAIN stats THEN stats[k] ELSE 0

\* self.feedback_stats[k] += 1
Incr(stats, k) ==
    [x \in (DOMAIN stats) \cup {k} |-> IF x = k THEN Stat(stats, k) + 1 ELSE stats[x]]

\* the counters after the counters of K were read
Touch(stats, K) == [x \in (DOMAIN stats) \cup K |-> Stat(stats, x)]

RatingKey(r) == "rating_" \o ToString(r)

RouteKey(route, what) == "route_" \o route \o "_" \o what

\* f"{counter:04d}"
Pad4(n) ==
    IF n < 10 THEN "000" \o ToString(n)
    ELSE IF n < 100 THEN "00" \o ToString(n)
    ELSE IF n < 1000 THEN "0" \o ToString(n)
    ELSE ToString(n)

\* strftime("%Y%m%d_%H%M%S") of the clock: one text of fixed width per second
Strftime(now) == "19700101_00000" \o ToString(now)

\* variant: the id is the timestamp alone
generate_feedback_id_TimestampOnly(storage, now) ==
    "feedback_" \o Strftime(now)

\* variant: the counter is the size the store had when it was read at the
\* start of the process, not the size at the insertion
generate_feedback_id_StaleSize(storage, now) ==
    "feedback_" \o Strftime(now) \o "_" \o Pad4(process_start.entries + 1)

\* _generate_feedback_id
generate_feedback_id(storage, now) ==
    "feedback_" \o Strftime(now) \o "_" \o Pad4(Len(storage) + 1)

\* the feedback_entry of collect_feedback (lines 59-84)
FeedbackEntry(feedback_id, now, req) ==
    [id |-> feedback_id,
     timestamp |-> now,
     query |-> req.query,
     response |-> [route_used |-> req.response.route_used,
                   confidence |-> req.response.confidence],
     feedback |-> req.feedback,
     metadata |-> IF HasNumberRating(req.feedback)
                  THEN [route_confidence |-> req.response.routing_metadata.confidence_scores,
                        user_satisfaction |-> req.feedback.rating]
                  ELSE [route_confidence |-> req.response.routing_metadata.confidence_scores,
                        user_satisfaction_text |-> req.feedback.rating_text]]

\* self.feedback_storage[feedback_id] = feedback_entry
StoreEntry(storage, entry) ==
    IF \E i \in DOMAIN storage : storage[i].id = entry.id
    THEN [i \in DOMAIN storage |-> IF storage[i].id = entry.id THEN entry ELSE storage[i]]
    ELSE Append(storage, entry)

\* f'rating_{feedback["rating"]}'
RatingKeyOf(f) ==
    IF HasNumberRating(f) THEN RatingKey(f.rating) ELSE "rating_" \o f.rating_text

\* _update_feedback_stats up to the first comparison of the rating (lines
\* 123-131): the counters it leaves behind when that comparison raises
stats_before_comparison(stats, entry) ==
    LET f == entry.feedback
        route == entry.response.route_used
        s0 == Incr(stats, "total_feedback")
        s1 == Incr(s0, RatingKeyOf(f))
        s2 == Incr(s1, RouteKey(route, "total"))
        s3 == IF f.helpful THEN Incr(s2, RouteKey(route, "helpful")) ELSE s2
    IN  IF f.correct THEN Incr(s3, RouteKey(route, "correct")) ELSE s3

\* variant: a submission for a query that is already stored is not counted again
update_feedback_stats_OncePerQuery(stats, storage, entry) ==
    LET f == entry.feedback
        route == entry.response.route_used
        s0 == IF \E i \in DOMAIN storage :
                    storage[i].query = entry.query /\ storage[i].id # entry.id
              THEN Touch(stats, {"total_feedback"})
              ELSE Incr(stats, "total_feedback")
        s1 == Incr(s0, RatingKey(f.rating))
        s2 == Incr(s1, RouteKey(route, "total"))
        s3 == IF f.helpful THEN Incr(s2, RouteKey(route, "helpful")) ELSE s2
        s4 == IF f.correct THEN Incr(s3, RouteKey(route, "correct")) ELSE s3
        s5 == IF f.rating >= 4 THEN Incr(s4, "high_satisfaction")
              ELSE IF f.rating <= 2 THEN Incr(s4, "low_satisfaction") ELSE s4
        s6 == IF ~f.clear THEN Incr(s5, "clarity_issues") ELSE s5
    IN  IF ~f.complete THEN Incr(s6, "completeness_issues") ELSE s6

\* variant: the route counts every entry as helpful
update_feedback_stats_HelpfulAlways(stats, storage, entry) ==
    LET f == entry.feedback
        route == entry.response.route_used
        s0 == Incr(stats, "total_feedback")
        s1 == Incr(s0, RatingKey(f.rating))
        s2 == Incr(s1, RouteKey(route, "total"))
        s3 == Incr(s2, RouteKey(route, "helpful"))
        s4 == IF f.correct THEN Incr(s3, RouteKey(route, "correct")) ELSE s3
        s5 == IF f.rating >= 4 THEN Incr(s4, "high_satisfaction")
              ELSE IF f.rating <= 2 THEN Incr(s4, "low_satisfaction") ELSE s4
        s6 == IF ~f.clear THEN Incr(s5, "clarity_issues") ELSE s5
    IN  IF ~f.complete THEN Incr(s6, "completeness_issues") ELSE s6

\* variant: a rating of 3 counts as low satisfaction
update_feedback_stats_NeutralIsLow(stats, storage, entry) ==
    LET f == entry.feedback
        s4 == stats_before_comparison(stats, entry)
        s5 == IF f.rating >= 4 THEN Incr(s4, "high_satisfaction")
              ELSE IF f.rating <= 3 THEN Incr(s4, "low_satisfaction") ELSE s4
        s6 == IF ~f.clear THEN Incr(s5, "clarity_issues") ELSE s5
    IN  IF ~f.complete THEN Incr(s6, "completeness_issues") ELSE s6

\* _update_feedback_stats; storage is the store the entry is already in
update_feedback_stats(stats, storage, entry) ==
    LET f == entry.feedback
        s4 == stats_before_comparison(stats, entry)
        s5 == IF f.rating >= 4 THEN Incr(s4, "high_satisfaction")
              ELSE IF f.rating <= 2 THEN Incr(s4, "low_satisfaction") ELSE s4
        s6 == IF ~f.clear THEN Incr(s5, "clarity_issues") ELSE s5
    IN  IF ~f.complete THEN Incr(s6, "completeness_issues") ELSE s6

Suggestion(type, entry, priority) ==
    [type |-> type, route |-> entry.response.route_used, priority |-> priority]

LowConfidence == 500

\* variant: an incorrect answer gives a suggestion of priority high
process_feedback_for_improvements_CorrectnessHigh(entry) ==
    LET f == entry.feedback
    IN  (IF f.rating <= 2 THEN <<Suggestion("low_satisfaction", entry, "high")>> ELSE << >>)
     \o (IF ~f.correct THEN <<Suggestion("correctness", entry, "high")>> ELSE << >>)
     \o (IF ~f.clear THEN <<Suggestion("clarity", entry, "medium")>> ELSE << >>)
     \o (IF ~f.complete THEN <<Suggestion("completeness", entry, "medium")>> ELSE << >>)
     \o (IF entry.response.confidence < LowConfidence /\ f.rating <= 3
         THEN <<Suggestion("confidence_accuracy", entry, "high")>> ELSE << >>)

\* variant: the rules are a chain, the first rule that holds is the only one
process_feedback_for_improvements_FirstRuleOnly(entry) ==
    LET f == entry.feedback
    IN  IF f.rating <= 2 THEN <<Suggestion("low_satisfaction", entry, "high")>>
        ELSE IF ~f.correct THEN <<Suggestion("correctness", entry, "critical")>>
        ELSE IF ~f.clear THEN <<Suggestion("clarity", entry, "medium")>>
        ELSE IF ~f.complete THEN <<Suggestion("completeness", entry, "medium")>>
        ELSE IF entry.response.confidence < LowConfidence /\ f.rating <= 3
        THEN <<Suggestion("confidence_accuracy", entry, "high")>>
        ELSE << >>

\* the improvements list of _process_feedback_for_improvements
process_feedback_for_improvements(entry) ==
    LET f == entry.feedback
    IN  (IF f.rating <= 2 THEN <<Suggestion("low_satisfaction", entry, "high")>> ELSE << >>)
     \o (IF ~f.correct THEN <<Suggestion("correctness", entry, "critical")>> ELSE << >>)
     \o (IF ~f.clear THEN <<Suggestion("clarity", entry, "medium")>> ELSE << >>)
     \o (IF ~f.complete THEN <<Suggestion("completeness", entry, "medium")>> ELSE << >>)
     \o (IF entry.response.confidence < LowConfidence /\ f.rating <= 3
         THEN <<Suggestion("confidence_accuracy", entry, "high")>> ELSE << >>)

(***************************************************************************)
(* The file of the feedback data.  json.dump followed by json.load gives   *)
(* back the three collections as they were (string keys, integers,         *)
(* booleans, lists in order); last_updated is written and never read.      *)
(***************************************************************************)
Missing == [state |-> "missing"]

Corrupt == [state |-> "corrupt"]

Snapshot(storage, stats, suggestions) ==
    [state |-> "saved", feedback |-> storage, stats |-> stats, suggestions |-> suggestions]

\* how a write of the file ends: written, refused by open(), or failed after
\* open() truncated the file
SaveOutcomes == {"ok", "refused", "torn"}

\* _save_feedback_data: the file afterwards
save_feedback_data(storage, stats, suggestions, old, outcome) ==
    CASE outcome = "ok" -> Snapshot(storage, stats, suggestions)
      [] outcome = "refused" -> old
      [] OTHER -> Corrupt

\* str(e) of None.get(...)
NoneTypeError == "'NoneType' object has no attribute 'get'"

\* variant: a failed write is reported as an error of the collection
collect_feedback_SaveRaises(storage, stats, suggestions, old, req, now, save) ==
    IF req.response.routing_metadata.is_none
    THEN [storage |-> storage, stats |-> stats, suggestions |-> suggestions, disk |-> old,
          result |-> [status |-> "error", error |-> NoneTypeError]]
    ELSE LET feedback_id == generate_feedback_id(storage, now)
             entry == FeedbackEntry(feedback_id, now, req)
             storage1 == StoreEntry(storage, entry)
             stats1 == update_feedback_stats(stats, storage1, entry)
             improvements == process_feedback_for_improvements(entry)
             suggestions1 == suggestions \o improvements
         IN  [storage |-> storage1, stats |-> stats1, suggestions |-> suggestions1,
              disk |-> save_feedback_data(storage1, stats1, suggestions1, old, save),
              result |-> IF save = "ok"
                         THEN [feedback_id |-> feedback_id, status |-> "collected",
                               improvements_identified |-> Len(improvements),
                               suggestions |-> improvements]
                         ELSE [status |-> "error", error |-> "write failed"]]

\* str(e) of 'five' >= 4
RatingTypeError == "'>=' not supported between instances of 'str' and 'int'"

\* collect_feedback: the agent and the file afterwards, and the result.
\* The entry cannot be built from a response without routing_metadata: the
\* except branch returns before anything is stored.  A rating that is not a
\* number raises in _update_feedback_stats, after the entry was stored and
\* the first counters were incremented: the except branch returns without
\* the suggestions and without the write.
collect_feedback(storage, stats, suggestions, old, req, now, save) ==
    IF req.response.routing_metadata.is_none
    THEN [storage |-> storage, stats |-> stats, suggestions |-> suggestions, disk |-> old,
          result |-> [status |-> "error", error |-> NoneTypeError]]
    ELSE IF ~HasNumberRating(req.feedback)
    THEN LET feedback_id == generate_feedback_id(storage, now)
             entry == FeedbackEntry(feedback_id, now, req)
             storage1 == StoreEntry(storage, entry)
         IN  [storage |-> storage1, stats |-> stats_before_comparison(stats, entry),
              suggestions |-> suggestions, disk |-> old,
              result |-> [status |-> "error", error |-> RatingTypeError]]
    ELSE LET feedback_id == generate_feedback_id(storage, now)
             entry == FeedbackEntry(feedback_id, now, req)
             storage1 == StoreEntry(storage, entry)
             stats1 == update_feedback_stats(stats, storage1, entry)
             improvements == process_feedback_for_improvements(entry)
             suggestions1 == suggestions \o improvements
         IN  [storage |-> storage1, stats |-> stats1, suggestions |-> suggestions1,
              disk |-> save_feedback_data(storage1, stats1, suggestions1, old, save),
              result |-> [feedback_id |-> feedback_id, status |-> "collected",
                          improvements_identified |-> Len(improvements),
                          suggestions |-> improvements]]

\* __init__ and _load_feedback_data: the agent and the file after the start
\* of a process; a file that cannot be read leaves the agent empty
load_feedback_data(old, save) ==
    CASE old.state = "saved" ->
            [storage |-> old.feedback, stats |-> old.stats,
             suggestions |-> old.suggestions, disk |-> old]
      [] old.state = "missing" ->
            [storage |-> << >>, stats |-> NoStats, suggestions |-> << >>,
             disk |-> save_feedback_data(<< >>, NoStats, << >>, old, save)]
      [] OTHER ->
            [storage |-> << >>, stats |-> NoStats, suggestions |-> << >>, disk |-> old]

(***************************************************************************)
(* Reports of the feedback agent.  A rate is a float in the source; here   *)
(* it is the quotient in thousandths, rounded down.  Two averages are      *)
(* compared exactly, by cross-multiplication.                              *)
(***************************************************************************)
Rate(n, d) == (n * 1000) \div d

RECURSIVE SumRatings(_)
SumRatings(entries) ==
    IF entries = << >> THEN 0
    ELSE Head(entries).feedback.rating + SumRatings(Tail(entries))

\* total_ratings and total_count of _calculate_average_rating
RatingTotals(stats) ==
    [total_ratings |-> 1 * Stat(stats, RatingKey(1)) + 2 * Stat(stats, RatingKey(2))
                     + 3 * Stat(stats, RatingKey(3)) + 4 * Stat(stats, RatingKey(4))
                     + 5 * Stat(stats, RatingKey(5)),
     total_count |-> Stat(stats, RatingKey(1)) + Stat(stats, RatingKey(2))
                   + Stat(stats, RatingKey(3)) + Stat(stats, RatingKey(4))
                   + Stat(stats, RatingKey(5))]

calculate_average_rating(stats) ==
    LET t == RatingTotals(stats)
    IN  IF t.total_count > 0 THEN Rate(t.total_ratings, t.total_count) ELSE 0

analyze_route_performance(stats) ==
    [route \in {r \in RouteDecision : Stat(stats, RouteKey(r, "total")) > 0} |->
        LET total == Stat(stats, RouteKey(route, "total"))
            helpful == Stat(stats, RouteKey(route, "helpful"))
            correct == Stat(stats, RouteKey(route, "correct"))
        IN  [total_usage |-> total,
             helpful_rate |-> Rate(helpful, total),
             correct_rate |-> Rate(correct, total),
             effectiveness_score |-> Rate(helpful + correct, 2 * total)]]

get_recommended_action(improvement_type) ==
    CASE improvement_type = "correctness" ->
            "Review mathematical computation logic and verify solutions against known answers"
      [] improvement_type = "clarity" ->
            "Improve step-by-step explanations and use simpler language"
      [] improvement_type = "completeness" ->
            "Ensure all solution steps are included and properly explained"
      [] improvement_type = "low_satisfaction" ->
            "Conduct detailed review of user experience and solution quality"
      [] improvement_type = "confidence_accuracy" ->
            "Calibrate routing confidence scores and improve decision thresholds"
      [] OTHER -> "Investigate specific issues and implement targeted improvements"

Priorities == <<"critical", "high", "medium", "low">>

TopPriorities == 10

\* the keys of type_counts, in the order they were first counted
RECURSIVE TypesInOrder(_)
TypesInOrder(items) ==
    IF items = << >> THEN << >>
    ELSE LET before == TypesInOrder(SubSeq(items, 1, Len(items) - 1))
             t == items[Len(items)].type
         IN  IF t \in Range(before) THEN before ELSE Append(before, t)

\* sorted(type_counts.items(), key=count, reverse=True): stable
RECURSIVE SortByFrequency(_)
SortByFrequency(s) ==
    IF s = << >> THEN << >>
    ELSE LET best == CHOOSE i \in DOMAIN s :
                        /\ \A j \in DOMAIN s : s[j].frequency <= s[i].frequency
                        /\ \A j \in DOMAIN s : j < i => s[j].frequency < s[i].frequency
             rest == [k \in 1..(Len(s) - 1) |-> IF k < best THEN s[k] ELSE s[k + 1]]
         IN  <<s[best]>> \o SortByFrequency(rest)

\* the rows _prioritize_improvements adds for one priority
PriorityRows(suggestions, priority) ==
    LET items == SelectSeq(suggestions, LAMBDA x : x.priority = priority)
        types == TypesInOrder(items)
    IN  SortByFrequency(
            [i \in DOMAIN types |->
                [type |-> types[i],
                 priority |-> priority,
                 frequency |-> Cardinality({j \in DOMAIN items : items[j].type = types[i]}),
                 recommended_action |-> get_recommended_action(types[i])]])

\* variant: the rows of all priorities are sorted by frequency together
prioritize_improvements_ByFrequencyOnly(suggestions) ==
    Take(SortByFrequency(
             PriorityRows(suggestions, Priorities[1]) \o PriorityRows(suggestions, Priorities[2])
             \o PriorityRows(suggestions, Priorities[3]) \o PriorityRows(suggestions, Priorities[4])),
         TopPriorities)

\* _prioritize_improvements
prioritize_improvements(suggestions) ==
    Take(PriorityRows(suggestions, Priorities[1]) \o PriorityRows(suggestions, Priorities[2])
         \o PriorityRows(suggestions, Priorities[3]) \o PriorityRows(suggestions, Priorities[4]),
         TopPriorities)

RecentWindow == 20

\* variant: every stored entry is recent
RecentFeedback_Everything(storage) == storage

\* list(self.feedback_storage.values())[-20:]
RecentFeedback(storage) ==
    SubSeq(storage, IF Len(storage) > RecentWindow
                    THEN Len(storage) - RecentWindow + 1 ELSE 1, Len(storage))

analyze_recent_trends(storage, stats) ==
    LET recent_feedback == RecentFeedback(storage)
        n == Len(recent_feedback)
        recent_sum == SumRatings(recent_feedback)
        t == RatingTotals(stats)
        \* recent_avg compared with overall_avg, which is 0.0 without ratings
        lhs == IF t.total_count > 0 THEN recent_sum * t.total_count ELSE recent_sum
        rhs == IF t.total_count > 0 THEN t.total_ratings * n ELSE 0
    IN  IF recent_feedback = << >>
        THEN [message |-> "No recent feedback available"]
        ELSE [recent_average_rating |-> Rate(recent_sum, n),
              overall_average_rating |-> calculate_average_rating(stats),
              trend |-> IF lhs > rhs THEN "improving"
                        ELSE IF lhs < rhs THEN "declining" ELSE "stable",
              recent_feedback_count |-> n]

\* the counters get_feedback_analysis reads
AnalysisReads(stats) ==
    IF Stat(stats, "total_feedback") = 0 THEN {"total_feedback"}
    ELSE {"total_feedback", "high_satisfaction", "low_satisfaction",
          "clarity_issues", "completeness_issues"}
         \cup {RatingKey(i) : i \in 1..5}
         \cup {RouteKey(r, "total") : r \in RouteDecision}
         \cup {RouteKey(r, w) : r \in {x \in RouteDecision : Stat(stats, RouteKey(x, "total")) > 0},
                                w \in {"helpful", "correct"}}

DivisionByZero == "division by zero"

NoFeedbackYet == [message |-> "No feedback data available yet"]

\* what get_feedback_analysis returns past its test of total_feedback: the
\* analysis, or the result of the except branch when a division raises
FeedbackAnalysis(storage, stats, suggestions) ==
    LET total_feedback == Stat(stats, "total_feedback")
    IN  IF total_feedback = 0
        THEN [error |-> DivisionByZero]
        ELSE [overview |->
                  [total_feedback_entries |-> total_feedback,
                   average_rating |-> calculate_average_rating(stats),
                   high_satisfaction_rate |-> Rate(Stat(stats, "high_satisfaction"), total_feedback),
                   low_satisfaction_rate |-> Rate(Stat(stats, "low_satisfaction"), total_feedback)],
              route_performance |-> analyze_route_performance(stats),
              common_issues |->
                  [clarity_rate |-> Rate(Stat(stats, "clarity_issues"), total_feedback),
                   completeness_rate |-> Rate(Stat(stats, "completeness_issues"), total_feedback)],
              improvement_priorities |-> prioritize_improvements(suggestions),
              recent_trends |-> analyze_recent_trends(storage, stats)]

\* variant: the empty case is not told apart
get_feedback_analysis_Unguarded(storage, stats, suggestions) ==
    [result |-> FeedbackAnalysis(storage, stats, suggestions),
     stats |-> Touch(stats, AnalysisReads(stats))]

\* str(e) of sum(recent_ratings) over a rating that is a text
SumTypeError == "unsupported operand type(s) for +: 'int' and 'str'"

\* get_feedback_analysis: what it returns and the counters afterwards.  The
\* sum of the recent ratings raises when one of them is not a number; the
\* except branch answers with the error.
get_feedback_analysis(storage, stats, suggestions) ==
    [result |-> IF Stat(stats, "total_feedback") = 0 THEN NoFeedbackYet
                ELSE IF \E i \in DOMAIN RecentFeedback(storage) :
                            ~HasNumberRating(RecentFeedback(storage)[i].feedback)
                THEN [error |-> SumTypeError]
                ELSE FeedbackAnalysis(storage, stats, suggestions),
     stats |-> Touch(stats, AnalysisReads(stats))]

\* primary_score: the first value of the confidence dict of an entry
PrimaryScores(history, route) ==
    LET es == SelectSeq(history, LAMBDA e : e.route = route /\ DOMAIN e.confidence # {})
    IN  [i \in DOMAIN es |-> es[i].confidence[KNOWLEDGE_BASE]]

RECURSIVE SumSeq(_)
SumSeq(s) == IF s = << >> THEN 0 ELSE Head(s) + SumSeq(Tail(s))

RecentQueries == 5

\* RoutingAgent.get_routing_stats
get_routing_stats(history) ==
    IF history = << >> THEN [total_queries |-> 0]
    ELSE LET routes == {history[i].route : i \in DOMAIN history}
         IN  [total_queries |-> Len(history),
              route_distribution |->
                  [r \in routes |-> Cardinality({i \in DOMAIN history : history[i].route = r})],
              average_confidence_by_route |->
                  [r \in routes |->
                      LET scores == PrimaryScores(history, r)
                      IN  IF scores # << >> THEN SumSeq(scores) \div Len(scores) ELSE 0],
              recent_queries |->
                  IF Len(history) >= RecentQueries
                  THEN SubSeq(history, Len(history) - RecentQueries + 1, Len(history))
                  ELSE history]

NoReply == [op |-> "none"]

\* a fresh agent: no file existed and the first save wrote it
FeedbackInit ==
    /\ feedback_storage = << >>
    /\ feedback_stats = NoStats
    /\ improvement_suggestions = << >>
    /\ disk = Snapshot(<< >>, NoStats, << >>)
    /\ clock = 0
    /\ inflight = {}
    /\ received = 0
    /\ handled = << >>
    /\ process_start = [entries |-> 0, total_feedback |-> 0]
    /\ reply = NoReply

\* a routing agent that has not been asked anything
RoutingInit ==
    /\ index_ready \in BOOLEAN
    /\ routing_history = << >>
    /\ pc = "idle"
    /\ query = NoQuery
    /\ sims = NoSims
    /\ route_decision = NoRoute
    /\ routing_metadata = Absent
    /\ response = Absent
    /\ kb_result = Absent
    /\ web_result = Absent
    /\ fallback_result = Absent
    /\ route_fault = "none"
    /\ calls = << >>

Init == FeedbackInit /\ RoutingInit

\* variant: the dispatch has no web-search branch
NextPc_NoWebBranch(route) ==
    CASE route = KNOWLEDGE_BASE -> "kb"
      [] route = HYBRID -> "kb"
      [] OTHER -> "fallback"

NextPc(route) ==
    CASE route = KNOWLEDGE_BASE -> "kb"
      [] route = HYBRID -> "kb"
      [] route = WEB_SEARCH -> "web"
      [] OTHER -> "fallback"

\* the web scorer is called only below the threshold
WebScorerCalled(hits, q) == calculate_kb_confidence(hits, q) < confidence_threshold

\* the calls route_query makes up to the step that raised
RouteCalls(hits, q, fault) ==
    <<Call("knowledge_base.search", "route_query", fault = "search")>>
    \o (IF fault # "search"
        THEN <<Call("_calculate_kb_confidence", "route_query", fault = "kb_scorer")>>
        ELSE << >>)
    \o (IF fault \notin {"search", "kb_scorer"} /\ WebScorerCalled(hits, q)
        THEN <<Call("_should_use_web_search", "route_query", fault = "web_scorer")>>
        ELSE << >>)

\* process_query up to the dispatch on the route (lines 160-181)
RouteAndDispatch(q, s, fault) ==
    /\ pc = "idle"
    /\ LET hits == search(index_ready, q, s, top_k)
           r == route_query(q, hits, fault)
           metadata == [r.metadata EXCEPT !.route_used = r.route]
       IN  /\ fault = "web_scorer" => WebScorerCalled(hits, q)
           /\ routing_history' = routing_history \o r.appended
           /\ route_decision' = r.route
           /\ routing_metadata' = metadata
           /\ response' = NewResponse(q, r.route, metadata)
           /\ calls' = <<Call("route_query", "process_query", FALSE)>>
                        \o RouteCalls(hits, q, fault)
           /\ pc' = NextPc(r.route)
    /\ query' = q
    /\ sims' = s
    /\ route_fault' = fault
    /\ UNCHANGED <<index_ready, kb_result, web_result, fallback_result>>
    /\ UNCHANGED feedback_vars

\* a query is taken while the history is below the bound of the model
StartProcessQuery(q, s, fault) ==
    /\ Len(routing_history) < MaxHistory
    /\ RouteAndDispatch(q, s, fault)

\* await self._process_knowledge_base(query), on the routes KnowledgeBase and Hybrid
ProcessKnowledgeBase(searchRaises, solve) ==
    /\ pc = "kb"
    /\ LET hits == search(index_ready, query, sims, top_k)
           result == process_knowledge_base(query, searchRaises, hits, solve)
           solved == ~searchRaises /\ hits # << >>
       IN  /\ kb_result' = result
           /\ calls' = calls
                \o <<Call("_process_knowledge_base", "process_query", FALSE),
                     Call("knowledge_base.search", "_process_knowledge_base", searchRaises)>>
                \o (IF solved
                    THEN <<Call("math_solver.solve_from_knowledge",
                                "_process_knowledge_base", solve = "raise")>>
                    ELSE << >>)
           /\ IF route_decision = KNOWLEDGE_BASE
              THEN /\ response' = Update(response, result)
                   /\ pc' = "done"
              ELSE /\ response' = response
                   /\ pc' = "web"
    /\ UNCHANGED <<index_ready, routing_history, query, sims, route_decision,
                   routing_metadata, web_result, fallback_result, route_fault>>
    /\ UNCHANGED feedback_vars

\* await self._process_web_search(query), on the routes WebSearch and Hybrid;
\* on Hybrid _combine_results follows
ProcessWebSearch(outcome, solve) ==
    /\ pc = "web"
    /\ LET result == process_web_search(query, outcome, solve)
           solved == outcome.kind # "raise" /\ web_search(query, outcome) # << >>
       IN  /\ web_result' = result
           /\ calls' = calls
                \o <<Call("_process_web_search", "process_query", FALSE),
                     Call("web_search.search", "_process_web_search", outcome.kind = "raise")>>
                \o (IF solved
                    THEN <<Call("math_solver.solve_from_web_search",
                                "_process_web_search", solve = "raise")>>
                    ELSE << >>)
                \o (IF route_decision = HYBRID
                    THEN <<Call("_combine_results", "process_query", FALSE)>> ELSE << >>)
           /\ response' =
                IF route_decision = HYBRID
                THEN Update(response, combine_results(kb_result, result))
                ELSE Update(response, result)
    /\ pc' = "done"
    /\ UNCHANGED <<index_ready, routing_history, query, sims, route_decision,
                   routing_metadata, kb_result, fallback_result, route_fault>>
    /\ UNCHANGED feedback_vars

\* await self._process_fallback(query, metadata)
ProcessFallback(solve) ==
    /\ pc = "fallback"
    /\ LET result == process_fallback(query, solve)
       IN  /\ fallback_result' = result
           /\ response' = Update(response, result)
    /\ calls' = calls
         \o <<Call("_process_fallback", "process_query", FALSE),
              Call("math_solver.solve_direct", "_process_fallback", solve = "raise")>>
    /\ pc' = "done"
    /\ UNCHANGED <<index_ready, routing_history, query, sims, route_decision,
                   routing_metadata, kb_result, web_result, route_fault>>
    /\ UNCHANGED feedback_vars

\* return response: the coroutine ends and its locals are gone
ReturnResponse ==
    /\ pc = "done"
    /\ pc' = "idle"
    /\ query' = NoQuery
    /\ sims' = NoSims
    /\ route_decision' = NoRoute
    /\ routing_metadata' = Absent
    /\ response' = Absent
    /\ kb_result' = Absent
    /\ web_result' = Absent
    /\ fallback_result' = Absent
    /\ route_fault' = "none"
    /\ calls' = << >>
    /\ UNCHANGED <<index_ready, routing_history>>
    /\ UNCHANGED feedback_vars

\* the similarities a query can get: none without an index
SimsFor(ready) == IF ready THEN SimLists ELSE {NoSims}

Next ==
    \/ \E q \in Queries, s \in SimsFor(index_ready), fault \in RouteFaults :
          StartProcessQuery(q, s, fault)
    \/ \E searchRaises \in BOOLEAN, solve \in SolverOutcomes :
          ProcessKnowledgeBase(searchRaises, solve)
    \/ \E outcome \in WebOutcomes, solve \in SolverOutcomes :
          ProcessWebSearch(outcome, solve)
    \/ \E solve \in SolverOutcomes : ProcessFallback(solve)
    \/ ReturnResponse

Spec == Init /\ [][Next]_vars

(***************************************************************************)
(* The feedback and report endpoints (api/routes.py).  Every handler is an *)
(* `async def` that calls the agent without awaiting anything before the   *)
(* call returns: on the event loop a handler runs from its start to the    *)
(* agent's return without another handler in between.  Requests are       *)
(* concurrent in that several can be received before any is handled, and   *)
(* they are handled in any order.                                          *)
(***************************************************************************)
\* POST /feedback arrives
ReceiveFeedback(req) ==
    /\ received < MaxFeedback
    /\ Len(feedback_storage) + Cardinality(inflight) < MaxFeedback
    /\ inflight' = inflight \cup {[n |-> received + 1, request |-> req]}
    /\ received' = received + 1
    /\ UNCHANGED <<feedback_storage, feedback_stats, improvement_suggestions, disk,
                   clock, handled, process_start, reply>>
    /\ UNCHANGED routing_vars

\* submit_feedback: feedback_agent.collect_feedback(...) for one request
SubmitFeedback(r, save) ==
    /\ r \in inflight
    /\ LET out == collect_feedback(feedback_storage, feedback_stats,
                                   improvement_suggestions, disk, r.request, clock, save)
       IN  /\ feedback_storage' = out.storage
           /\ feedback_stats' = out.stats
           /\ improvement_suggestions' = out.suggestions
           /\ disk' = out.disk
           /\ handled' = Append(handled, [n |-> r.n, query |-> r.request.query,
                                          status |-> out.result.status,
                                          feedback_id |-> IF out.result.status = "collected"
                                                          THEN out.result.feedback_id
                                                          ELSE None,
                                          overlapped |-> inflight # {r}])
           /\ reply' = [op |-> "collect_feedback", result |-> out.result, save |-> save]
    /\ inflight' = inflight \ {r}
    /\ UNCHANGED <<clock, received, process_start>>
    /\ UNCHANGED routing_vars

\* the clock reaches the next second
Tick ==
    /\ clock + 1 \in Seconds
    /\ clock' = clock + 1
    /\ UNCHANGED <<feedback_storage, feedback_stats, improvement_suggestions, disk,
                   inflight, received, handled, process_start, reply>>
    /\ UNCHANGED routing_vars

\* GET /feedback/analysis
GetFeedbackAnalysis ==
    /\ LET out == get_feedback_analysis(feedback_storage, feedback_stats,
                                        improvement_suggestions)
       IN  /\ feedback_stats' = out.stats
           /\ reply' = [op |-> "get_feedback_analysis", result |-> out.result]
    /\ UNCHANGED <<feedback_storage, improvement_suggestions, disk, clock, inflight,
                   received, handled, process_start>>
    /\ UNCHANGED routing_vars

\* GET /routing/stats
GetRoutingStats ==
    /\ reply' = [op |-> "get_routing_stats", result |-> get_routing_stats(routing_history)]
    /\ UNCHANGED <<feedback_storage, feedback_stats, improvement_suggestions, disk,
                   clock, inflight, received, handled, process_start>>
    /\ UNCHANGED routing_vars

\* the process ends and a new one constructs its FeedbackAgent from the file
Restart(save) ==
    /\ LET out == load_feedback_data(disk, save)
       IN  /\ feedback_storage' = out.storage
           /\ feedback_stats' = out.stats
           /\ improvement_suggestions' = out.suggestions
           /\ disk' = out.disk
           /\ process_start' = [entries |-> Len(out.storage),
                                total_feedback |-> Stat(out.stats, "total_feedback")]
    /\ inflight' = {}
    /\ received' = 0
    /\ handled' = << >>
    /\ reply' = NoReply
    /\ UNCHANGED clock
    /\ UNCHANGED routing_vars

\* the ways the write of collect_feedback can end for a request: there is no
\* write when the entry cannot be built
SavesFor(req) ==
    IF req.response.routing_metadata.is_none THEN {"ok"} ELSE SaveOutcomes

\* the ways the write of _load_feedback_data can end: it writes only when
\* there is no file
SavesAtStart(file) == IF file.state = "missing" THEN SaveOutcomes ELSE {"ok"}

NextFeedback ==
    \/ \E req \in FeedbackRequests : ReceiveFeedback(req)
    \/ \E r \in inflight : \E save \in SavesFor(r.request) : SubmitFeedback(r, save)
    \/ Tick
    \/ GetFeedbackAnalysis
    \/ \E save \in SavesAtStart(disk) : Restart(save)

\* the feedback endpoints do not use the routing agent
InitFeedback == Init /\ ~index_ready

SpecFeedback == InitFeedback /\ [][NextFeedback]_vars

(***************************************************************************)
(* The routing history over several queries.  The queries and the          *)
(* failures are a part of those of Spec, so that the history can grow.     *)
(***************************************************************************)
LedgerQueries == {q \in Queries : q.words \in {{"find"}, {"roots", "explain"}}}

LedgerFaults == {"none", "search"}

StartLedgerQuery(q, s, fault) ==
    /\ Len(routing_history) < MaxLedger
    /\ RouteAndDispatch(q, s, fault)

NextHistory ==
    \/ \E q \in LedgerQueries, s \in SimsFor(index_ready), fault \in LedgerFaults :
          StartLedgerQuery(q, s, fault)
    \/ ProcessKnowledgeBase(FALSE, "ok")
    \/ ProcessWebSearch([kind |-> "http_error", pages |-> << >>], "ok")
    \/ ProcessFallback("ok")
    \/ ReturnResponse
    \/ GetRoutingStats

SpecHistory == Init /\ [][NextHistory]_vars

(***************************************************************************)
(* Direct calls of collect_feedback and get_feedback_analysis on one       *)
(* FeedbackAgent, one after the other, with feedback of every kind the     *)
(* rules and the counters tell apart.  The process starts from the file an *)
(* earlier process left: no entries, or one entry short of the recent      *)
(* window, so that the calls of the model carry the store past the window. *)
(***************************************************************************)
Form(rating, correct, clear, complete) ==
    [rating |-> rating, helpful |-> (rating >= 3), correct |-> correct, clear |-> clear,
     complete |-> complete]

\* a response whose confidence is exactly 0.5
BoundaryResponse ==
    [route_used |-> HYBRID, confidence |-> LowConfidence,
     routing_metadata |-> Metadata(KbAndWeb(LowConfidence, 600))]

IngestQuery == "Find the derivative of x^2"

IngestRequests ==
    {[query |-> IngestQuery, response |-> KbResponse, feedback |-> Form(4, TRUE, TRUE, TRUE)],
     [query |-> IngestQuery, response |-> KbResponse, feedback |-> Form(2, TRUE, TRUE, TRUE)],
     [query |-> IngestQuery, response |-> KbResponse, feedback |-> Form(3, FALSE, TRUE, TRUE)],
     [query |-> IngestQuery, response |-> KbResponse, feedback |-> Form(3, TRUE, FALSE, TRUE)],
     [query |-> IngestQuery, response |-> KbResponse, feedback |-> Form(3, TRUE, TRUE, FALSE)],
     [query |-> IngestQuery, response |-> FallbackResponse, feedback |-> Form(3, TRUE, TRUE, TRUE)],
     [query |-> IngestQuery, response |-> FallbackResponse, feedback |-> Form(4, TRUE, TRUE, TRUE)],
     [query |-> IngestQuery, response |-> BoundaryResponse, feedback |-> Form(3, TRUE, TRUE, TRUE)],
     [query |-> IngestQuery, response |-> FallbackResponse, feedback |-> Form(2, FALSE, FALSE, FALSE)],
     [query |-> IngestQuery, response |-> BareResponse, feedback |-> Satisfied],
     [query |-> IngestQuery, response |-> KbResponse, feedback |-> TextRated]}

\* the agent and the file after one more request was collected
AgentThen(agent, req) ==
    LET out == collect_feedback(agent.storage, agent.stats, agent.suggestions,
                                agent.disk, req, 0, "ok")
    IN  [storage |-> out.storage, stats |-> out.stats,
         suggestions |-> out.suggestions, disk |-> out.disk]

\* the store is looked at in every step, so that the agent of one step is
\* evaluated before the next step starts
RECURSIVE AgentAfterAll(_, _)
AgentAfterAll(agent, reqs) ==
    IF reqs = << >> \/ Len(agent.storage) < 0 THEN agent
    ELSE AgentAfterAll(AgentThen(agent, Head(reqs)), Tail(reqs))

\* the agent and the file after the requests were collected, one after the
\* other, by a fresh agent
AgentAfter(reqs) ==
    AgentAfterAll([storage |-> << >>, stats |-> NoStats, suggestions |-> << >>,
                   disk |-> Snapshot(<< >>, NoStats, << >>)], reqs)

\* what the earlier process collected: nothing, or a first submission with
\* rating 1 or 5 and then submissions with rating 3, one entry short of the
\* recent window
Backlogs ==
    {<< >>} \cup
    {<<[query |-> IngestQuery, response |-> KbResponse, feedback |-> first]>> \o
     [i \in 1..(RecentWindow - 2) |->
         [query |-> IngestQuery, response |-> KbResponse,
          feedback |-> Form(3, TRUE, TRUE, TRUE)]] :
        first \in {Form(1, TRUE, FALSE, TRUE), Form(5, TRUE, TRUE, TRUE)}}

\* a process whose FeedbackAgent loaded the file of the earlier process
InitIngest ==
    /\ \E b \in Backlogs :
          LET a == load_feedback_data(AgentAfter(b).disk, "ok")
          IN  /\ feedback_storage = a.storage
              /\ feedback_stats = a.stats
              /\ improvement_suggestions = a.suggestions
              /\ disk = a.disk
              /\ process_start = [entries |-> Len(a.storage),
                                  total_feedback |-> Stat(a.stats, "total_feedback")]
    /\ clock = 0
    /\ inflight = {}
    /\ received = 0
    /\ handled = << >>
    /\ reply = NoReply
    /\ RoutingInit
    /\ ~index_ready

\* feedback_agent.collect_feedback(query, response, feedback_data)
CollectFeedback(req) ==
    /\ Len(feedback_storage) - process_start.entries < MaxFeedback
    /\ LET out == collect_feedback(feedback_storage, feedback_stats,
                                   improvement_suggestions, disk, req, clock, "ok")
       IN  /\ feedback_storage' = out.storage
           /\ feedback_stats' = out.stats
           /\ improvement_suggestions' = out.suggestions
           /\ disk' = out.disk
           /\ reply' = [op |-> "collect_feedback", result |-> out.result, save |-> "ok",
                        request |-> req]
    /\ UNCHANGED <<clock, inflight, received, handled, process_start>>
    /\ UNCHANGED routing_vars

NextIngest ==
    \/ \E req \in IngestRequests : CollectFeedback(req)
    \/ GetFeedbackAnalysis

SpecIngest == InitIngest /\ [][NextIngest]_vars

(***************************************************************************)
(* Properties of route_query.                                              *)
(***************************************************************************)
Routed == pc # "idle"

Scores == routing_metadata.confidence_scores

HasKbScore == Routed /\ KNOWLEDGE_BASE \in DOMAIN Scores

HasBothScores == Routed /\ DOMAIN Scores = {KNOWLEDGE_BASE, WEB_SEARCH}

\* C1: a knowledge-base confidence at or above the confidence threshold (the
\* boundary 0.7 included) makes route_query return KnowledgeBase, whatever
\* the web-search need of the query is.
C1_ThresholdRoutesToKnowledgeBase ==
    (HasKbScore /\ Scores[KNOWLEDGE_BASE] >= confidence_threshold)
        => route_decision = KNOWLEDGE_BASE

\* a query at exactly the threshold whose web-search need passes the gate
C1_Witness ==
    /\ HasKbScore
    /\ Scores[KNOWLEDGE_BASE] = confidence_threshold
    /\ should_use_web_search(query) >= WebSearchGate
    /\ route_decision = KNOWLEDGE_BASE

\* C2: a knowledge-base confidence below the threshold together with a
\* web-search need below 0.5 makes route_query return Fallback with
\* fallback_used true.
C2_LowScoresRouteToFallback ==
    (/\ HasBothScores
     /\ Scores[KNOWLEDGE_BASE] < confidence_threshold
     /\ Scores[WEB_SEARCH] < WebSearchGate)
        => /\ route_decision = FALLBACK
           /\ routing_metadata.fallback_used

C2_Witness ==
    /\ HasBothScores
    /\ route_fault = "none"
    /\ Scores[KNOWLEDGE_BASE] > 0
    /\ Scores[KNOWLEDGE_BASE] < confidence_threshold
    /\ Scores[WEB_SEARCH] < WebSearchGate
    /\ route_decision = FALLBACK

\* C3: a knowledge-base confidence below the threshold together with a
\* web-search need of at least 0.5 makes route_query return Hybrid when the
\* knowledge-base confidence is above 0.3 and WebSearch otherwise (exactly 0.3
\* gives WebSearch); fallback_used stays false.
C3_WebNeedRoutesToHybridOrWebSearch ==
    (/\ HasBothScores
     /\ Scores[KNOWLEDGE_BASE] < confidence_threshold
     /\ Scores[WEB_SEARCH] >= WebSearchGate)
        => /\ Scores[KNOWLEDGE_BASE] > ModerateKbConfidence => route_decision = HYBRID
           /\ Scores[KNOWLEDGE_BASE] <= ModerateKbConfidence => route_decision = WEB_SEARCH
           /\ ~routing_metadata.fallback_used

\* a hybrid decision with the web-search need exactly at the gate
C3_Witness ==
    /\ HasBothScores
    /\ Scores[KNOWLEDGE_BASE] > ModerateKbConfidence
    /\ Scores[KNOWLEDGE_BASE] < confidence_threshold
    /\ Scores[WEB_SEARCH] = WebSearchGate
    /\ route_decision = HYBRID
    /\ ~routing_metadata.fallback_used

\* C4: when the knowledge-base lookup or one of the two scorers raises inside
\* route_query, route_query returns Fallback with fallback_used true,
\* route_used equal to the fallback route and a reasoning that holds the text
\* of the error.
C4_RouteQueryErrorFallsBack ==
    (Routed /\ route_fault # "none")
        => /\ route_decision = FALLBACK
           /\ routing_metadata.fallback_used
           /\ routing_metadata.route_used = FALLBACK
           /\ ErrorText(route_fault) \in Range(routing_metadata.reasoning)

\* the web scorer raised after the knowledge-base score was recorded
C4_Witness ==
    /\ Routed
    /\ route_fault = "web_scorer"
    /\ \E i \in DOMAIN calls : calls[i].op = "_should_use_web_search" /\ calls[i].raised
    /\ route_decision = FALLBACK

(***************************************************************************)
(* Properties of process_query.                                            *)
(***************************************************************************)
EnvelopeFields ==
    {"query", "route_used", "routing_metadata", "solution", "steps", "sources",
     "confidence", "error"}

Returned == pc = "done"

\* the calls process_query made itself, by name
CallsBy(by) ==
    LET made == SelectSeq(calls, LAMBDA c : c.by = by)
    IN  [i \in DOMAIN made |-> made[i].op]

RaisedIn(by) == \E i \in DOMAIN calls : calls[i].by = by /\ calls[i].raised

\* C5: process_query returns, for every query and every failure of a
\* collaborator, an envelope with exactly the eight fields query, route_used,
\* routing_metadata, solution, steps, sources, confidence and error.
C5_EnvelopeHasEightFields ==
    Returned => DOMAIN response = EnvelopeFields

\* an envelope returned after a collaborator raised
C5_Witness ==
    /\ Returned
    /\ \E i \in DOMAIN calls : calls[i].raised
    /\ response.error # None
    /\ DOMAIN response = EnvelopeFields

\* C6: _calculate_kb_confidence and _should_use_web_search return a value
\* between 0 and 1 for every query and every list of candidates the search
\* returns.
C6_ScorersStayInUnitInterval ==
    Routed => \A r \in DOMAIN Scores : Scores[r] \in 0..1000

\* the web scorer clamps a sum above 1
C6_Witness ==
    /\ HasBothScores
    /\ WebSearchRawScore(query) > 1000
    /\ Scores[WEB_SEARCH] = 1000

\* C7: the confidence of the returned envelope is between 0 and 1 on every
\* route, for every relevance score the knowledge-base search can return.
C7_EnvelopeConfidenceInUnitInterval ==
    Returned => response.confidence \in 0..1000

\* the routes on which _process_knowledge_base, _process_web_search and
\* _process_fallback are awaited
ExpectedOperations(route) ==
    CASE route = KNOWLEDGE_BASE -> <<"route_query", "_process_knowledge_base">>
      [] route = WEB_SEARCH -> <<"route_query", "_process_web_search">>
      [] route = HYBRID -> <<"route_query", "_process_knowledge_base",
                             "_process_web_search", "_combine_results">>
      [] OTHER -> <<"route_query", "_process_fallback">>

SolveCalls(op) == Cardinality({i \in DOMAIN calls : calls[i].op = op})

\* C8: process_query invokes exactly the operations of the chosen route:
\* KnowledgeBase only the knowledge-base solve, WebSearch only the web-search
\* solve, Fallback only the direct solve, Hybrid the knowledge-base solve and
\* then the web-search solve, each once, and never the direct solve.
C8_OnlyTheChosenRouteRuns ==
    Returned =>
        /\ CallsBy("process_query") = ExpectedOperations(route_decision)
        /\ SolveCalls("math_solver.solve_from_knowledge") <= 1
        /\ SolveCalls("math_solver.solve_from_web_search") <= 1
        /\ SolveCalls("math_solver.solve_direct") <=
              (IF route_decision = FALLBACK THEN 1 ELSE 0)
        /\ route_decision \in {WEB_SEARCH, FALLBACK}
              => SolveCalls("math_solver.solve_from_knowledge") = 0
        /\ route_decision \in {KNOWLEDGE_BASE, FALLBACK}
              => SolveCalls("math_solver.solve_from_web_search") = 0

\* a hybrid request in which both solves ran
C8_Witness ==
    /\ Returned
    /\ route_decision = HYBRID
    /\ SolveCalls("math_solver.solve_from_knowledge") = 1
    /\ SolveCalls("math_solver.solve_from_web_search") = 1
    /\ SolveCalls("math_solver.solve_direct") = 0

FailedSafely(result) ==
    /\ result # Absent
    /\ result.confidence = 0
    /\ ~IsEmptyText(result.solution)

\* C9: when a call to a collaborator raises, _process_knowledge_base,
\* _process_web_search and _process_fallback do not raise: each returns a
\* result with confidence 0.0 and a non-empty solution text.
C9_PerRouteOperationsAbsorbErrors ==
    /\ RaisedIn("_process_knowledge_base") => FailedSafely(kb_result)
    /\ RaisedIn("_process_web_search") => FailedSafely(web_result)
    /\ RaisedIn("_process_fallback") => FailedSafely(fallback_result)

\* the solver raised on a hit of the knowledge base
C9_Witness ==
    /\ \E i \in DOMAIN calls :
          calls[i].op = "math_solver.solve_from_knowledge" /\ calls[i].raised
    /\ kb_result # Absent
    /\ kb_result.confidence = 0
    /\ "error" \in DOMAIN kb_result

\* C10: the confidence of a Hybrid envelope is the arithmetic mean of the
\* confidences of the knowledge-base result and of the web-search result.
C10_HybridConfidenceIsTheMean ==
    (Returned /\ route_decision = HYBRID)
        => 2 * response.confidence = kb_result.confidence + web_result.confidence

C10_Witness ==
    /\ Returned
    /\ route_decision = HYBRID
    /\ kb_result.confidence > 0
    /\ web_result.confidence > 0
    /\ kb_result.confidence # web_result.confidence
    /\ 2 * response.confidence = kb_result.confidence + web_result.confidence

(***************************************************************************)
(* Properties of the feedback agent.                                       *)
(***************************************************************************)
\* the submissions this process has collected, in the order it handled them
Collected == SelectSeq(handled, LAMBDA h : h.status = "collected")

\* the place of the entry with the given id in the store, 0 when there is none
PlaceOf(feedback_id) ==
    IF \E i \in DOMAIN feedback_storage : feedback_storage[i].id = feedback_id
    THEN CHOOSE i \in DOMAIN feedback_storage : feedback_storage[i].id = feedback_id
    ELSE 0

\* C11: the successful collect_feedback calls of one process returned
\* pairwise different feedback ids, also when several were made in the same
\* clock second, and the store holds one entry per call (next to the entries
\* the process loaded when it started), each under the id its call returned.
C11_FeedbackIdsAreUnique ==
    /\ \A i, j \in DOMAIN Collected :
          i # j => Collected[i].feedback_id # Collected[j].feedback_id
    /\ Len(feedback_storage) = process_start.entries + Len(Collected)
    /\ \A i \in DOMAIN Collected :
          PlaceOf(Collected[i].feedback_id) = process_start.entries + i

C11_Witness ==
    /\ Len(Collected) = 2
    /\ Collected[1].feedback_id # Collected[2].feedback_id
    /\ PlaceOf(Collected[1].feedback_id) # 0
    /\ PlaceOf(Collected[2].feedback_id) # 0
    /\ feedback_storage[PlaceOf(Collected[1].feedback_id)].timestamp
          = feedback_storage[PlaceOf(Collected[2].feedback_id)].timestamp

AnalysisReplied == reply.op = "get_feedback_analysis"

\* C13: get_feedback_analysis called while total_feedback is 0 returns the
\* empty-state record, which holds a message and nothing else (no overview,
\* rates or trends), and no call of get_feedback_analysis in any reachable
\* state ends in a division by zero: no answer is an error record.
C13_EmptyAnalysisIsTheSentinel ==
    AnalysisReplied =>
        /\ "error" \notin DOMAIN reply.result
        /\ Stat(feedback_stats, "total_feedback") = 0 =>
              /\ reply.result = NoFeedbackYet
              /\ DOMAIN reply.result = {"message"}
        /\ Stat(feedback_stats, "total_feedback") > 0 =>
              /\ "overview" \in DOMAIN reply.result
              /\ reply.result.overview.total_feedback_entries
                    = Stat(feedback_stats, "total_feedback")

C13_Witness ==
    /\ AnalysisReplied
    /\ feedback_storage = << >>
    /\ Stat(feedback_stats, "total_feedback") = 0
    /\ reply.result = NoFeedbackYet

\* the answer to the last request is that of a collected submission
CollectReplied == reply.op = "collect_feedback" /\ reply.result.status = "collected"

\* the stored entry of the submission just answered
RepliedEntry == feedback_storage[PlaceOf(reply.result.feedback_id)]

\* the submission just collected has rating 1 and correct = false
LowAndWrong ==
    /\ CollectReplied
    /\ RepliedEntry.feedback.rating = 1
    /\ ~RepliedEntry.feedback.correct

\* the submission just collected produced exactly a low_satisfaction record
\* of priority high and a correctness record of priority critical
ExactlyTheTwo ==
    LET made == reply.result.suggestions
        n == Len(improvement_suggestions)
    IN  /\ reply.result.improvements_identified = 2
        /\ Len(made) = 2
        /\ {<<made[i].type, made[i].priority>> : i \in DOMAIN made}
              = {<<"low_satisfaction", "high">>, <<"correctness", "critical">>}
        /\ n >= 2
        /\ SubSeq(improvement_suggestions, n - 1, n) = made

ReportAnswered ==
    /\ reply' # reply
    /\ reply'.op \in {"get_feedback_analysis", "get_routing_stats"}

\* C15: get_feedback_analysis and get_routing_stats are read-only: a step
\* that answers either leaves the feedback store, the counters (their names
\* included), the suggestion list and the routing history as they were.
C15_ReportsAreReadOnly ==
    [][ReportAnswered =>
          UNCHANGED <<feedback_storage, feedback_stats, improvement_suggestions,
                      routing_history>>]_vars

\* the last request was a submission whose write to the file failed
WriteFailed == reply.op = "collect_feedback" /\ reply.save # "ok"

\* C16: when the write of the feedback data fails during collect_feedback,
\* the call still returns status collected with the new feedback id, and the
\* store, the counters and the suggestion list in memory hold the new entry
\* and its effects, which the file does not.
C16_FailedWriteIsNotPropagated ==
    WriteFailed =>
        /\ reply.result.status = "collected"
        /\ "error" \notin DOMAIN reply.result
        /\ PlaceOf(reply.result.feedback_id) = Len(feedback_storage)
        /\ Stat(feedback_stats, "total_feedback")
              = process_start.total_feedback + Len(Collected)
        /\ Stat(feedback_stats, RatingKey(RepliedEntry.feedback.rating)) >= 1
        /\ LET made == reply.result.suggestions
               n == Len(improvement_suggestions)
           IN  /\ n >= Len(made)
               /\ SubSeq(improvement_suggestions, n - Len(made) + 1, n) = made
        /\ disk # Snapshot(feedback_storage, feedback_stats, improvement_suggestions)

C16_Witness ==
    /\ WriteFailed
    /\ reply.save = "torn"
    /\ reply.result.status = "collected"
    /\ PlaceOf(reply.result.feedback_id) = Len(feedback_storage)
    /\ Len(reply.result.suggestions) > 0
    /\ disk = Corrupt

(***************************************************************************)
(* Properties of the routing history.                                      *)
(***************************************************************************)
\* a step in which process_query calls route_query
RouteQueryCalled == pc = "idle" /\ pc' # "idle"

\* the history after the step is the history before it and then more entries
HistoryExtended ==
    /\ Len(routing_history') >= Len(routing_history)
    /\ SubSeq(routing_history', 1, Len(routing_history)) = routing_history

\* C17: every call of route_query, whatever decision it returns, appends
\* exactly one entry to the routing history, holding the excerpt of the
\* query and the returned route, and changes nothing else of the agent.
C17_EveryRouteQueryAppendsOneEntry ==
    [][RouteQueryCalled =>
          /\ HistoryExtended
          /\ Len(routing_history') = Len(routing_history) + 1
          /\ routing_history'[Len(routing_history')].query = Excerpt(query')
          /\ routing_history'[Len(routing_history')].route = route_decision'
          /\ UNCHANGED index_ready]_vars

\* C18: the routing history is append-only and well-typed: the route of
\* every entry is one of knowledge_base, web_search, hybrid, fallback, and
\* every step keeps the entries there are, in their order and with their
\* fields, and at most adds entries after them.
C18_HistoryIsAppendOnlyAndTyped ==
    /\ [](\A i \in DOMAIN routing_history : routing_history[i].route \in RouteDecision)
    /\ [][HistoryExtended]_vars

C18_Witness ==
    /\ Len(routing_history) = 2
    /\ routing_history[1].route # routing_history[2].route
    /\ reply.op = "get_routing_stats"
    /\ reply.result.total_queries = 2
    /\ pc = "idle"

(***************************************************************************)
(* Properties of the knowledge-base confidence.                            *)
(***************************************************************************)
\* the candidates route_query got from the search for the query in hand
Candidates == search(index_ready, query, sims, top_k)

\* C19: the knowledge-base confidence is min(1.0, m + 0.1*t + 0.1*c), where m
\* is the highest score among the candidates, 0 when there are none, t counts
\* the topic keywords in the query and c is 1 when the query has one of
\* solve, calculate, find, compute: the boosts are added also when there is
\* no candidate.
C19_KbConfidenceIsBoostedMaximum ==
    HasKbScore =>
        LET m == IF Candidates = << >> THEN 0 ELSE BestScore(Candidates)
        IN  Scores[KNOWLEDGE_BASE] = Min(m + TopicBoost(query), 1000)

(***************************************************************************)
(* Properties of the feedback counters.                                    *)
(***************************************************************************)
\* the number of stored entries that satisfy P
Stored(P(_)) == Cardinality({i \in DOMAIN feedback_storage : P(feedback_storage[i])})

Ratings == 1..5

\* C20: every counter is non-negative and is the number of stored entries
\* that satisfy its predicate: total_feedback counts the entries, rating_r
\* those with rating r, route_R_total, route_R_helpful and route_R_correct
\* those with route R (and helpful, and correct), clarity_issues those with
\* clear = false and completeness_issues those with complete = false; so the
\* helpful and the correct count of a route are at most its total.
C20_CountersMatchTheStore ==
    /\ \A k \in DOMAIN feedback_stats : feedback_stats[k] >= 0
    /\ Stat(feedback_stats, "total_feedback") = Len(feedback_storage)
    /\ \A r \in Ratings :
          Stat(feedback_stats, RatingKey(r))
              = Stored(LAMBDA e : e.feedback.rating = r)
    /\ \A R \in RouteDecision :
          /\ Stat(feedback_stats, RouteKey(R, "total"))
                = Stored(LAMBDA e : e.response.route_used = R)
          /\ Stat(feedback_stats, RouteKey(R, "helpful"))
                = Stored(LAMBDA e : e.response.route_used = R /\ e.feedback.helpful)
          /\ Stat(feedback_stats, RouteKey(R, "correct"))
                = Stored(LAMBDA e : e.response.route_used = R /\ e.feedback.correct)
          /\ Stat(feedback_stats, RouteKey(R, "helpful"))
                <= Stat(feedback_stats, RouteKey(R, "total"))
          /\ Stat(feedback_stats, RouteKey(R, "correct"))
                <= Stat(feedback_stats, RouteKey(R, "total"))
    /\ Stat(feedback_stats, "clarity_issues")
          = Stored(LAMBDA e : ~e.feedback.clear)
    /\ Stat(feedback_stats, "completeness_issues")
          = Stored(LAMBDA e : ~e.feedback.complete)

C20_Witness ==
    /\ Len(feedback_storage) = 2
    /\ Stat(feedback_stats, "total_feedback") = 2
    /\ Stat(feedback_stats, RouteKey(FALLBACK, "total")) = 2
    /\ Stat(feedback_stats, RouteKey(FALLBACK, "helpful")) = 1
    /\ Stat(feedback_stats, RatingKey(1)) = 1
    /\ Stat(feedback_stats, "clarity_issues") = 1
    /\ process_start.entries = 1

(***************************************************************************)
(* Properties of direct calls of the feedback agent.                       *)
(***************************************************************************)
\* a step in which collect_feedback collected a submission
Ingested ==
    /\ reply'.op = "collect_feedback"
    /\ reply'.result.status = "collected"
    /\ Len(feedback_storage') = Len(feedback_storage) + 1

\* what the step added to counter k
Added(k) == Stat(feedback_stats', k) - Stat(feedback_stats, k)

\* C21: every collected entry increments at most one of high_satisfaction
\* and low_satisfaction: high_satisfaction exactly when its rating is at
\* least 4, low_satisfaction exactly when it is at most 2, neither for 3; so
\* the two counters count the stored entries rated at least 4 and at most 2,
\* and their sum is at most total_feedback.
C21_SatisfactionCountersExclude ==
    /\ [][Ingested =>
             LET rating == feedback_storage'[Len(feedback_storage')].feedback.rating
             IN  /\ Added("high_satisfaction") = (IF rating >= 4 THEN 1 ELSE 0)
                 /\ Added("low_satisfaction") = (IF rating <= 2 THEN 1 ELSE 0)
                 /\ Added("high_satisfaction") + Added("low_satisfaction") <= 1]_vars
    /\ [](/\ Stat(feedback_stats, "high_satisfaction")
                = Stored(LAMBDA e : HasNumberRating(e.feedback) /\ e.feedback.rating >= 4)
          /\ Stat(feedback_stats, "low_satisfaction")
                = Stored(LAMBDA e : HasNumberRating(e.feedback) /\ e.feedback.rating <= 2)
          /\ Stat(feedback_stats, "high_satisfaction")
                + Stat(feedback_stats, "low_satisfaction")
                <= Stat(feedback_stats, "total_feedback"))

C21_Witness ==
    /\ Stat(feedback_stats, "high_satisfaction") = 1
    /\ Stat(feedback_stats, "low_satisfaction") = 1
    /\ Stat(feedback_stats, RatingKey(3)) >= 1
    /\ Stat(feedback_stats, "total_feedback") = Len(feedback_storage)
    /\ reply.op = "collect_feedback"
    /\ reply.result.status = "collected"
    /\ reply.request.feedback.rating = 4

\* the five improvement rules for a request: type, priority and whether the
\* rule's predicate holds
ImprovementRules(req) ==
    LET f == req.feedback
    IN  <<[type |-> "low_satisfaction", priority |-> "high", holds |-> f.rating <= 2],
          [type |-> "correctness", priority |-> "critical", holds |-> ~f.correct],
          [type |-> "clarity", priority |-> "medium", holds |-> ~f.clear],
          [type |-> "completeness", priority |-> "medium", holds |-> ~f.complete],
          [type |-> "confidence_accuracy", priority |-> "high",
           holds |-> req.response.confidence < LowConfidence /\ f.rating <= 3]>>

\* the positions of list s that hold a suggestion of the type
OfType(s, type) == {i \in DOMAIN s : s[i].type = type}

\* C22: the five improvement rules are evaluated independently: the
\* suggestions collect_feedback returns hold one record, with its type and
\* priority, for every rule whose predicate holds for the entry and no
\* other record; improvements_identified is their number, and the list of
\* all suggestions grows by exactly these records.
C22_RulesAreIndependent ==
    [][Ingested =>
          LET req == reply'.request
              returned == reply'.result.suggestions
              rules == ImprovementRules(req)
          IN  /\ \A r \in DOMAIN rules :
                    /\ Cardinality(OfType(returned, rules[r].type))
                          = (IF rules[r].holds THEN 1 ELSE 0)
                    /\ \A i \in OfType(returned, rules[r].type) :
                          returned[i].priority = rules[r].priority
              /\ Len(returned) = Cardinality({r \in DOMAIN rules : rules[r].holds})
              /\ reply'.result.improvements_identified = Len(returned)
              /\ improvement_suggestions' = improvement_suggestions \o returned]_vars

\* a call for which all five rules hold
C22_Witness ==
    /\ reply.op = "collect_feedback"
    /\ reply.result.status = "collected"
    /\ \A r \in DOMAIN ImprovementRules(reply.request) :
          ImprovementRules(reply.request)[r].holds
    /\ reply.result.improvements_identified = 5
    /\ Len(improvement_suggestions) >= 5

\* an answer of get_feedback_analysis that holds the analysis
Analysed ==
    /\ reply.op = "get_feedback_analysis"
    /\ "improvement_priorities" \in DOMAIN reply.result

\* the place of a priority in the order critical, high, medium, low
TierOf(priority) == CHOOSE k \in DOMAIN Priorities : Priorities[k] = priority

\* the number of accumulated suggestions of the priority and type
Accumulated(priority, type) ==
    Cardinality({i \in DOMAIN improvement_suggestions :
                    /\ improvement_suggestions[i].priority = priority
                    /\ improvement_suggestions[i].type = type})

\* C23: the improvement priorities of an analysis are at most 10 rows, one
\* for each group of accumulated suggestions with the same priority and
\* type; the rows are ordered by tier (critical, high, medium, low) and
\* within a tier by descending frequency, so every critical row precedes
\* every row of a lower tier whatever the frequencies; the frequency of a
\* row is the number of accumulated suggestions of its priority and type.
C23_PrioritiesAreTieredAndCounted ==
    Analysed =>
        LET rows == reply.result.improvement_priorities
            groups == {<<improvement_suggestions[i].priority, improvement_suggestions[i].type>> :
                          i \in DOMAIN improvement_suggestions}
        IN  /\ Len(rows) <= TopPriorities
            /\ \A i, j \in DOMAIN rows :
                  i < j => <<rows[i].priority, rows[i].type>> # <<rows[j].priority, rows[j].type>>
            /\ {<<rows[i].priority, rows[i].type>> : i \in DOMAIN rows} = groups
            /\ \A i \in DOMAIN rows :
                  rows[i].frequency = Accumulated(rows[i].priority, rows[i].type)
            /\ \A i, j \in DOMAIN rows :
                  i < j =>
                     \/ TierOf(rows[i].priority) < TierOf(rows[j].priority)
                     \/ /\ rows[i].priority = rows[j].priority
                        /\ rows[i].frequency >= rows[j].frequency

\* one critical row of frequency 1 before a high row of frequency 2, which
\* overtook the high row whose type was counted first
C23_Witness ==
    /\ Analysed
    /\ LET rows == reply.result.improvement_priorities
       IN  /\ Len(rows) = 5
           /\ [i \in 1..5 |-> <<rows[i].priority, rows[i].type, rows[i].frequency>>]
                 = << <<"critical", "correctness", 1>>,
                      <<"high", "confidence_accuracy", 2>>,
                      <<"high", "low_satisfaction", 1>>,
                      <<"medium", "clarity", 1>>,
                      <<"medium", "completeness", 1>> >>
           /\ improvement_suggestions[1].type = "low_satisfaction"

\* the sum of the ratings of the stored entries at the places from..to
RECURSIVE RatingSum(_, _)
RatingSum(from, to) ==
    IF from > to THEN 0
    ELSE feedback_storage[to].feedback.rating + RatingSum(from, to - 1)

\* C24: the recent trends of an analysis are computed from exactly the 20
\* entries inserted last (from all entries when there are fewer), and the
\* trend is improving when their mean rating is greater than the mean rating
\* of all stored entries, declining when it is smaller and stable when the
\* two are equal.
C24_TrendComparesLastTwentyWithAll ==
    Analysed =>
        LET trends == reply.result.recent_trends
            all == Len(feedback_storage)
            n == IF all > 20 THEN 20 ELSE all
            recent_sum == RatingSum(all - n + 1, all)
            all_sum == RatingSum(1, all)
        IN  /\ trends.recent_feedback_count = n
            /\ trends.recent_average_rating = (recent_sum * 1000) \div n
            /\ trends.trend = "improving" <=> recent_sum * all > all_sum * n
            /\ trends.trend = "declining" <=> recent_sum * all < all_sum * n
            /\ trends.trend = "stable" <=> recent_sum * all = all_sum * n

\* 21 entries of which the oldest, the only one not rated 3, is outside the
\* last 20: the recent mean is 3 and greater than the mean of all entries
C24_Witness ==
    /\ Analysed
    /\ Len(feedback_storage) = 21
    /\ feedback_storage[1].feedback.rating = 1
    /\ \A i \in 2..21 : feedback_storage[i].feedback.rating = 3
    /\ reply.result.recent_trends.recent_feedback_count = 20
    /\ reply.result.recent_trends.recent_average_rating = 3000
    /\ reply.result.recent_trends.trend = "improving"

(***************************************************************************)
(* Further properties of the routing agent.                                *)
(***************************************************************************)
\* C25: the steps of a Hybrid envelope are the steps of the knowledge-base
\* result followed by the steps of the web-search result, and its sources
\* are the knowledge-base sources followed by the web-search sources: each
\* sequence is kept in its order, nothing is merged or removed, and the
\* lengths are the sums of the lengths.
C25_HybridConcatenatesStepsAndSources ==
    (Returned /\ route_decision = HYBRID) =>
        /\ response.steps = kb_result.steps \o web_result.steps
        /\ response.sources = kb_result.sources \o web_result.sources
        /\ Len(response.steps) = Len(kb_result.steps) + Len(web_result.steps)
        /\ Len(response.sources) = Len(kb_result.sources) + Len(web_result.sources)
        /\ \A i \in DOMAIN kb_result.steps : response.steps[i] = kb_result.steps[i]
        /\ \A i \in DOMAIN web_result.steps :
              response.steps[Len(kb_result.steps) + i] = web_result.steps[i]

\* both operations gave steps and a source, and the two lists of steps differ
C25_Witness ==
    /\ Returned
    /\ route_decision = HYBRID
    /\ kb_result.steps # << >>
    /\ web_result.steps # << >>
    /\ kb_result.steps # web_result.steps
    /\ Len(kb_result.sources) = 1
    /\ Len(web_result.sources) = 1
    /\ response.sources[1].type = "knowledge_base"
    /\ response.sources[2].type = "web_search"

\* a call made by one of the per-route operations raised
CollaboratorFailed ==
    \/ RaisedIn("_process_knowledge_base")
    \/ RaisedIn("_process_web_search")
    \/ RaisedIn("_process_fallback")

\* C28: whenever a call to a collaborator made while the query was processed
\* failed, the error field of the returned envelope is not null; this holds
\* on every route, Hybrid included, when the knowledge-base operation, the
\* web-search operation or both failed.
C28_FailureIsReported ==
    (Returned /\ CollaboratorFailed) => response.error # None

\* C30: in every envelope process_query returns, route_used is the
\* route_used of its routing_metadata, is one of knowledge_base, web_search,
\* hybrid and fallback, and is the decision route_query returned for the
\* query; fallback_used of the routing_metadata is true exactly when that
\* route is fallback.
C30_EnvelopeRouteIsTheDecision ==
    Returned =>
        LET decided == route_query(query, search(index_ready, query, sims, top_k),
                                   route_fault).route
        IN  /\ response.route_used = response.routing_metadata.route_used
            /\ response.route_used \in RouteDecision
            /\ response.route_used = route_decision
            /\ response.route_used = decided
            /\ response.routing_metadata.fallback_used <=> (response.route_used = FALLBACK)

\* the web scorer raised inside route_query and the solver raised afterwards:
\* the envelope names the route fallback and flags it
C30_Witness ==
    /\ Returned
    /\ route_fault = "web_scorer"
    /\ response.error # None
    /\ response.route_used = FALLBACK
    /\ response.routing_metadata.route_used = FALLBACK
    /\ response.routing_metadata.fallback_used

(***************************************************************************)
(* Further properties of the feedback endpoints.                           *)
(***************************************************************************)
\* a step in which one of the received submissions was collected; the
\* submissions received before the step were in flight together
SubmissionCollected ==
    /\ Len(handled') = Len(handled) + 1
    /\ handled'[Len(handled')].status = "collected"

\* C26: the id of a submission is generated, from the size of the store, and
\* its entry is inserted without another submission in between: whichever
\* submissions are in flight together and in whatever order they are
\* handled, the entry of each is added under an id no stored entry has,
\* every entry stored before stays as it was, and no two entries of the
\* store have the same id.
C26_ConcurrentIdsDoNotCollide ==
    /\ [][SubmissionCollected =>
             LET feedback_id == handled'[Len(handled')].feedback_id
             IN  /\ \A i \in DOMAIN feedback_storage : feedback_storage[i].id # feedback_id
                 /\ Len(feedback_storage') = Len(feedback_storage) + 1
                 /\ SubSeq(feedback_storage', 1, Len(feedback_storage)) = feedback_storage
                 /\ feedback_storage'[Len(feedback_storage')].id = feedback_id
                 /\ feedback_storage'[Len(feedback_storage')].query
                       = handled'[Len(handled')].query]_vars
    /\ [](\A i, j \in DOMAIN feedback_storage :
             i # j => feedback_storage[i].id # feedback_storage[j].id)

\* two submissions for different queries were in flight together and were
\* collected in the same second, the later request first: the store holds
\* the entries of both
C26_Witness ==
    /\ Len(Collected) = 2
    /\ Collected[1].overlapped
    /\ Collected[1].n > Collected[2].n
    /\ Collected[1].query # Collected[2].query
    /\ Len(feedback_storage) >= 2
    /\ LET a == feedback_storage[Len(feedback_storage) - 1]
           b == feedback_storage[Len(feedback_storage)]
       IN  /\ a.id = Collected[1].feedback_id
           /\ b.id = Collected[2].feedback_id
           /\ a.timestamp = b.timestamp
           /\ a.query = Collected[1].query
           /\ b.query = Collected[2].query

\* C27: the write of the feedback data is all-or-nothing: whatever a step
\* does to the file, writer failures included, the file afterwards is the
\* complete snapshot it held before the step or the complete snapshot of the
\* agent after the step, never a truncated or partial one.
C27_FileIsPreviousOrNewSnapshot ==
    [][\/ disk' = disk
       \/ disk' = Snapshot(feedback_storage', feedback_stats', improvement_suggestions')]_vars

(***************************************************************************)
(* Further properties of direct calls of the feedback agent.               *)
(***************************************************************************)
\* a step in which collect_feedback returned status error
CollectFailed ==
    /\ reply'.op = "collect_feedback"
    /\ reply'.result.status = "error"

\* C29: collect_feedback is all-or-nothing on the state in memory: whenever
\* it returns status error, for example because the rating is not a number,
\* the feedback store, every counter and the suggestion list are exactly as
\* they were before the call.
C29_ErrorLeavesTheAgentUnchanged ==
    [][CollectFailed =>
          UNCHANGED <<feedback_storage, feedback_stats, improvement_suggestions>>]_vars

====
